---------------------------- MODULE Spec2Model ----------------------------
(***************************************************************************)
(* Model of the episodic/semantic memory store of adk-coding-agent         *)
(* (package internal/memory): the vector codec, the cosine similarity      *)
(* primitive, the brute-force (SQLiteStore) and native-index               *)
(* (PostgresStore) strategies and the signature generator.                 *)
(*                                                                         *)
(* Go values are modelled as follows.                                      *)
(*   float32  a record [s, e, m] of the IEEE-754 binary32 fields (sign,    *)
(*            biased exponent, fraction); arithmetic is round-to-nearest-  *)
(*            even on these fields, with subnormals, infinities and NaN.   *)
(*   []T      a record [nil, elems]: the nil slice is NilSlice, any other  *)
(*            slice is Slice(<its elements>); a NULL column is NilSlice.   *)
(*   string   the sequence of its bytes.                                   *)
(***************************************************************************)
EXTENDS Integers, Sequences, FiniteSets, TLC

VARIABLES
    impl,           \* which Store implementation the process was built with
    service,        \* the memory.Service built over the store, and its embedder
    issue_history,  \* the issue_history table, in rowid order
    project_rules,  \* the project_rules table, in rowid order
    args,           \* the arguments of the call in progress (pure-function runs)
    ret             \* what the last call returned

vars == <<impl, service, issue_history, project_rules, args, ret>>

NilSlice == [nil |-> TRUE, elems |-> << >>]     \* the nil slice / SQL NULL
Slice(s) == [nil |-> FALSE, elems |-> s]        \* a non-nil slice
IsNil(x) == x.nil
Len0(x)  == Len(x.elems)                        \* Go's len()

RECURSIVE Pow2(_)
Pow2(k) == IF k = 0 THEN 1 ELSE 2 * Pow2(k - 1)

Min(a, b) == IF a < b THEN a ELSE b
Max(a, b) == IF a > b THEN a ELSE b

(***************************************************************************)
(* float32                                                                 *)
(***************************************************************************)
F32(s, e, m) == [s |-> s, e |-> e, m |-> m]

Zero32    == F32(0, 0, 0)
NegZero32 == F32(1, 0, 0)
One32     == F32(0, 127, 0)
NaN32     == F32(0, 255, 4194304)
Inf32(s)  == F32(s, 255, 0)

IsNaN(x)  == x.e = 255 /\ x.m # 0
IsInf(x)  == x.e = 255 /\ x.m = 0
IsZero(x) == x.e = 0 /\ x.m = 0

Hidden == 8388608       \* 2^23, the implicit leading bit of a normal number

\* The number of bits of a positive integer.
RECURSIVE BitLen(_)
BitLen(n) == IF n = 0 THEN 0 ELSE 1 + BitLen(n \div 2)

\* A finite non-zero x as <<sig, ex>> with |x| = sig * 2^ex and 2^23 <= sig < 2^24.
RECURSIVE Normalize(_, _)
Normalize(sig, ex) == IF sig >= Hidden THEN <<sig, ex>> ELSE Normalize(2 * sig, ex - 1)

Unpack(x) == IF x.e = 0 THEN Normalize(x.m, -149) ELSE <<Hidden + x.m, x.e - 150>>

\* The float32 nearest to (-1)^s * (sig + f) * 2^ex, where 0 <= f < 1 and
\* sticky = 1 iff f > 0 (ties to even; sig >= 2^24 whenever sticky = 1).
RoundPack(s, sig, ex, sticky) ==
    LET n == BitLen(sig)
        r == Max(n - 24, -149 - ex)         \* bits to drop
    IN  IF sig = 0 \/ r > n THEN F32(s, 0, 0)
        ELSE IF r <= 0
        THEN LET q == sig * Pow2(-r)
                 e == (ex + r) + 150
             IN  IF q < Hidden THEN F32(s, 0, q)
                 ELSE IF e >= 255 THEN Inf32(s)
                 ELSE F32(s, e, q - Hidden)
        ELSE LET q    == sig \div Pow2(r)
                 rem  == sig % Pow2(r)
                 half == Pow2(r - 1)
                 up   == rem > half \/ (rem = half /\ (sticky = 1 \/ q % 2 = 1))
                 q1   == IF up THEN q + 1 ELSE q
                 q2   == IF q1 = 2 * Hidden THEN Hidden ELSE q1
                 ex2  == IF q1 = 2 * Hidden THEN ex + r + 1 ELSE ex + r
                 e    == ex2 + 150
             IN  IF q2 < Hidden THEN F32(s, 0, q2)
                 ELSE IF e >= 255 THEN Inf32(s)
                 ELSE F32(s, e, q2 - Hidden)

\* x * y in float32.
F32Mul(x, y) ==
    LET s == (x.s + y.s) % 2
    IN  IF IsNaN(x) \/ IsNaN(y) THEN NaN32
        ELSE IF IsInf(x) \/ IsInf(y)
        THEN (IF IsZero(x) \/ IsZero(y) THEN NaN32 ELSE Inf32(s))
        ELSE IF IsZero(x) \/ IsZero(y) THEN F32(s, 0, 0)
        ELSE LET a  == Unpack(x)
                 b  == Unpack(y)
                 ah == a[1] \div 4096
                 al == a[1] % 4096
                 bh == b[1] \div 4096
                 bl == b[1] % 4096
                 \* a*b = ah*bh*2^24 + mid*2^12 + al*bl = H*2^24 + L
                 mid == ah * bl + al * bh
                 low == (mid % 4096) * 4096 + al * bl
                 H   == ah * bh + mid \div 4096 + low \div 16777216
                 L   == low % 16777216
                 \* keep 2 bits of L below H, the rest is sticky
                 sig == 4 * H + L \div 4194304
                 st  == IF L % 4194304 = 0 THEN 0 ELSE 1
             IN  RoundPack(s, sig, a[2] + b[2] + 22, st)

\* x + y in float32.
F32Add(x, y) ==
    IF IsNaN(x) \/ IsNaN(y) THEN NaN32
    ELSE IF IsInf(x) THEN (IF IsInf(y) /\ x.s # y.s THEN NaN32 ELSE x)
    ELSE IF IsInf(y) THEN y
    ELSE IF IsZero(x) /\ IsZero(y) THEN (IF x.s = 1 /\ y.s = 1 THEN NegZero32 ELSE Zero32)
    ELSE IF IsZero(x) THEN y
    ELSE IF IsZero(y) THEN x
    ELSE LET a   == Unpack(x)
             b   == Unpack(y)
             big == a[2] > b[2] \/ (a[2] = b[2] /\ a[1] >= b[1])
             p   == IF big THEN a ELSE b        \* larger magnitude
             q   == IF big THEN b ELSE a
             ps  == IF big THEN x.s ELSE y.s
             qs  == IF big THEN y.s ELSE x.s
             d   == p[2] - q[2]
             \* three guard bits; bits shifted out of q are jammed into bit 0
             P   == 8 * p[1]
             Q0  == 8 * q[1]
             Q   == IF d = 0 THEN Q0
                    ELSE IF d > 27 THEN 1
                    ELSE (Q0 \div Pow2(d)) + (IF Q0 % Pow2(d) = 0 THEN 0
                                              ELSE IF (Q0 \div Pow2(d)) % 2 = 1 THEN 0 ELSE 1)
             S   == IF ps = qs THEN P + Q ELSE P - Q
         IN  IF S = 0 THEN Zero32 ELSE RoundPack(ps, S, p[2] - 3, 0)

\* x / y in float32.
RECURSIVE DivBits(_, _, _, _)
DivBits(q, r, b, k) ==
    IF k = 0 THEN <<q, r>>
    ELSE IF 2 * r >= b THEN DivBits(2 * q + 1, 2 * r - b, b, k - 1)
    ELSE DivBits(2 * q, 2 * r, b, k - 1)

F32Div(x, y) ==
    LET s == (x.s + y.s) % 2
    IN  IF IsNaN(x) \/ IsNaN(y) THEN NaN32
        ELSE IF IsInf(x) THEN (IF IsInf(y) THEN NaN32 ELSE Inf32(s))
        ELSE IF IsInf(y) THEN F32(s, 0, 0)
        ELSE IF IsZero(y) THEN (IF IsZero(x) THEN NaN32 ELSE Inf32(s))
        ELSE IF IsZero(x) THEN F32(s, 0, 0)
        ELSE LET a  == Unpack(x)
                 b  == Unpack(y)
                 qr == DivBits(a[1] \div b[1], a[1] % b[1], b[1], 26)
             IN  RoundPack(s, qr[1], a[2] - b[2] - 26, IF qr[2] = 0 THEN 0 ELSE 1)

\* float32(math.Sqrt(float64(x))): the square root is taken in float64 and
\* rounded to float32; for sqrt this double rounding equals rounding once.
RECURSIVE ISqrt(_, _, _)
ISqrt(n, lo, hi) ==     \* the largest root in lo..hi with root^2 <= n
    IF lo = hi THEN lo
    ELSE LET midv == (lo + hi + 1) \div 2
         IN  IF midv * midv <= n THEN ISqrt(n, midv, hi) ELSE ISqrt(n, lo, midv - 1)

RECURSIVE SqrtBits(_, _, _)
SqrtBits(root, r, k) ==
    IF k = 0 THEN <<root, r>>
    ELSE IF 4 * r >= 4 * root + 1
         THEN SqrtBits(2 * root + 1, 4 * r - (4 * root + 1), k - 1)
         ELSE SqrtBits(2 * root, 4 * r, k - 1)

F32Sqrt(x) ==
    IF IsNaN(x) THEN NaN32
    ELSE IF IsZero(x) THEN x
    ELSE IF x.s = 1 THEN NaN32
    ELSE IF IsInf(x) THEN x
    ELSE LET a   == Unpack(x)
             odd == a[2] % 2 # 0
             sig == IF odd THEN 2 * a[1] ELSE a[1]
             ex  == IF odd THEN a[2] - 1 ELSE a[2]
             r0  == ISqrt(sig, 0, 8191)
             rr  == SqrtBits(r0, sig - r0 * r0, 13)
         IN  RoundPack(0, rr[1], (ex \div 2) - 13, IF rr[2] = 0 THEN 0 ELSE 1)

\* x > y and x == y on float32 (false whenever a NaN is involved; -0 == +0).
F32Key(x) ==    \* a finite or infinite x as an integer that orders like x
    LET mag == x.e * Hidden + x.m
    IN  IF x.s = 0 THEN mag ELSE -mag

F32Gt(x, y) == ~IsNaN(x) /\ ~IsNaN(y) /\ F32Key(x) > F32Key(y)
F32Eq(x, y) == ~IsNaN(x) /\ ~IsNaN(y) /\ F32Key(x) = F32Key(y)
F32Ge(x, y) == F32Gt(x, y) \/ F32Eq(x, y)


(***************************************************************************)
(* Vector codec (encodeVector / decodeVector)                              *)
(*                                                                         *)
(* A uint32 is the tuple of its four bytes, most significant first.        *)
(***************************************************************************)
\* math.Float32bits: sign in bit 31, exponent in bits 30..23, fraction below.
Float32bits(f) ==
    << f.s * 128 + f.e \div 2,
       (f.e % 2) * 128 + f.m \div 65536,
       (f.m \div 256) % 256,
       f.m % 256 >>

\* math.Float32frombits
Float32frombits(u) ==
    F32(u[1] \div 128,
        (u[1] % 128) * 2 + u[2] \div 128,
        (u[2] % 128) * 65536 + u[3] * 256 + u[4])

\* binary.LittleEndian.PutUint32: the four bytes written, lowest address first.
PutUint32(u) == << u[4], u[3], u[2], u[1] >>

\* binary.LittleEndian.Uint32 of the four bytes at b[0..3].
Uint32(b) == << b[4], b[3], b[2], b[1] >>

RECURSIVE Concat(_)
Concat(ss) == IF ss = << >> THEN << >> ELSE Head(ss) \o Concat(Tail(ss))

encodeVectorBigEndian(v) ==
    IF IsNil(v) THEN NilSlice
    ELSE Slice(Concat([i \in 1..Len0(v) |-> Float32bits(v.elems[i])]))

encodeVector(v) ==
    IF IsNil(v) THEN NilSlice
    ELSE Slice(Concat([i \in 1..Len0(v) |-> PutUint32(Float32bits(v.elems[i]))]))

decodeVectorTruncating(b) ==
    IF IsNil(b) \/ Len0(b) < 4 THEN NilSlice
    ELSE Slice([i \in 1..(Len0(b) \div 4) |->
                    Float32frombits(Uint32(SubSeq(b.elems, 4 * i - 3, 4 * i)))])

decodeVector(b) ==
    IF IsNil(b) \/ Len0(b) = 0 \/ Len0(b) % 4 # 0 THEN NilSlice
    ELSE Slice([i \in 1..(Len0(b) \div 4) |->
                    Float32frombits(Uint32(SubSeq(b.elems, 4 * i - 3, 4 * i)))])

(***************************************************************************)
(* cosineSimilarity                                                        *)
(***************************************************************************)
\* The loop body for elements i..len(a): dot, normA and normB are float32
\* accumulators, updated in index order.
RECURSIVE CosLoop(_, _, _, _)
CosLoop(a, b, i, acc) ==
    IF i > Len0(a) THEN acc
    ELSE CosLoop(a, b, i + 1,
                 [dot   |-> F32Add(acc.dot,   F32Mul(a.elems[i], b.elems[i])),
                  normA |-> F32Add(acc.normA, F32Mul(a.elems[i], a.elems[i])),
                  normB |-> F32Add(acc.normB, F32Mul(b.elems[i], b.elems[i]))])

ZeroSums == [dot |-> Zero32, normA |-> Zero32, normB |-> Zero32]

\* dot / (float32(math.Sqrt(float64(normA))) * float32(math.Sqrt(float64(normB))))
Quotient(acc) == F32Div(acc.dot, F32Mul(F32Sqrt(acc.normA), F32Sqrt(acc.normB)))

\* if normA == 0 || normB == 0 { return 0 }, then the quotient
GuardedQuotient(acc) ==
    IF F32Eq(acc.normA, Zero32) \/ F32Eq(acc.normB, Zero32) THEN Zero32 ELSE Quotient(acc)

cosineSimilarityNoZeroGuard(a, b) ==
    IF Len0(a) # Len0(b) \/ Len0(a) = 0 THEN Zero32
    ELSE Quotient(CosLoop(a, b, 1, ZeroSums))

cosineSimilarity(a, b) ==
    IF Len0(a) # Len0(b) \/ Len0(a) = 0 THEN Zero32
    ELSE GuardedQuotient(CosLoop(a, b, 1, ZeroSums))

(***************************************************************************)
(* Runs of the pure functions: Init draws the arguments, one step applies  *)
(* the function.                                                           *)
(***************************************************************************)
NoCall == [op |-> "none"]

\* No memory.Service is built: the store is called directly.
NoService == [kind |-> "none", embedder |-> FALSE]

\* All slices over S of length 0..n, the nil slice among them.
SeqsUpTo(S, n) == UNION {[1..k -> S] : k \in 0..n}
SlicesUpTo(S, n) == {Slice(e) : e \in SeqsUpTo(S, n)} \cup {NilSlice}

MaxDim   == 2       \* longest vector given to the codec
MaxBytes == 8       \* longest byte buffer given to decodeVector

Pi32      == F32(0, 128, 4788176)       \* 3.14159
MinSub32  == F32(0, 0, 1)               \* the smallest subnormal
MaxFin32  == F32(0, 254, 8388607)       \* the largest finite float32
NegOne32  == F32(1, 127, 0)

CodecFloats == {Zero32, NegZero32, One32, NegOne32, Pi32, MinSub32, MaxFin32}
CodecVecs   == SlicesUpTo(CodecFloats, MaxDim)
ByteVals    == {0, 63, 128}
ByteBufs    == SlicesUpTo(ByteVals, MaxBytes)

CodecInit ==
    /\ impl = "none"
    /\ issue_history = << >>
    /\ service = NoService
    /\ project_rules = << >>
    /\ args \in {[fn |-> "roundtrip", v |-> v] : v \in CodecVecs}
                \cup {[fn |-> "decode", b |-> b] : b \in ByteBufs}
    /\ ret = NoCall

RoundTrip ==
    /\ args.fn = "roundtrip"
    /\ ret = NoCall
    /\ LET encoded == encodeVector(args.v)
       IN  ret' = [op |-> "roundtrip", encoded |-> encoded, decoded |-> decodeVector(encoded)]
    /\ UNCHANGED <<impl, service, issue_history, project_rules, args>>

Decode ==
    /\ args.fn = "decode"
    /\ ret = NoCall
    /\ ret' = [op |-> "decode", decoded |-> decodeVector(args.b)]
    /\ UNCHANGED <<impl, service, issue_history, project_rules, args>>

CodecNext == RoundTrip \/ Decode

SpecCodec == CodecInit /\ [][CodecNext]_vars

\* C1: decodeVector(encodeVector(v)) has the length of v and the same bits in
\* every element; for v = nil it is nil.
C1_RoundTrip ==
    ret.op = "roundtrip" =>
        /\ Len0(ret.decoded) = Len0(args.v)
        /\ \A i \in 1..Len0(args.v) : ret.decoded.elems[i] = args.v.elems[i]
        /\ (IsNil(args.v) => IsNil(ret.decoded))

C1_Witness ==
    /\ ret.op = "roundtrip"
    /\ ~IsNil(args.v)
    /\ args.v.elems = <<NegOne32, MinSub32>>
    /\ ret.encoded = Slice(<<0, 0, 128, 191, 1, 0, 0, 0>>)
    /\ ret.decoded = args.v

\* C2: a buffer whose length is not a multiple of 4 decodes to nil (never to a
\* vector made of a prefix); a buffer of 4n bytes, n >= 1, decodes to n elements.
C2_DecodeLength ==
    ret.op = "decode" =>
        /\ (Len0(args.b) % 4 # 0 => IsNil(ret.decoded))
        /\ (Len0(args.b) % 4 = 0 /\ Len0(args.b) >= 4 =>
                ~IsNil(ret.decoded) /\ Len0(ret.decoded) = Len0(args.b) \div 4)

C2_Witness ==
    /\ ret.op = "decode"
    /\ Len0(args.b) = 7
    /\ args.b.elems[4] = 63
    /\ IsNil(ret.decoded)

(***************************************************************************)
(* Runs of cosineSimilarity                                                *)
(***************************************************************************)
MaxCosDim == 2      \* longest vector given to cosineSimilarity

Three32 == F32(0, 128, 4194304)     \* 3.0
Tiny32  == F32(0, 47, 0)            \* 2^-80: its square underflows to 0
Huge32  == F32(0, 227, 0)           \* 2^100: its square overflows to +Inf

CosFloats == {Zero32, One32, NegOne32, Three32, Tiny32, Huge32}
CosVecs   == SlicesUpTo(CosFloats, MaxCosDim)

CosineInit ==
    /\ impl = "none"
    /\ issue_history = << >>
    /\ service = NoService
    /\ project_rules = << >>
    /\ args \in {[fn |-> "cosine", a |-> a, b |-> b] : a \in CosVecs, b \in CosVecs}
    /\ ret = NoCall

Cosine ==
    /\ args.fn = "cosine"
    /\ ret = NoCall
    /\ ret' = [op |-> "cosine", score |-> cosineSimilarity(args.a, args.b)]
    /\ UNCHANGED <<impl, service, issue_history, project_rules, args>>

CosineNext == Cosine

SpecCosine == CosineInit /\ [][CosineNext]_vars

AllZero(v) == \A i \in 1..Len0(v) : IsZero(v.elems[i])
Negated(v) == [i \in 1..Len0(v) |-> [v.elems[i] EXCEPT !.s = 1 - @]]

\* The components both vectors have non-zero at the same index.
Overlap(a, b) == {i \in 1..Len0(a) : ~IsZero(a.elems[i]) /\ ~IsZero(b.elems[i])}

\* |x - c| <= 0.0001 for c = 1, -1 and 0 (the bounds are the nearest float32).
Near1(x)    == F32Ge(x, F32(0, 126, 8386930)) /\ F32Ge(F32(0, 127, 839), x)
NearNeg1(x) == F32Ge(x, F32(1, 127, 839)) /\ F32Ge(F32(1, 126, 8386930), x)
Near0(x)    == F32Ge(x, F32(1, 113, 5355287)) /\ F32Ge(F32(0, 113, 5355287), x)
InRange(x)  == F32Ge(x, F32(1, 127, 839)) /\ F32Ge(F32(0, 127, 839), x)

\* C3: the result is exactly 0 when the lengths differ, when both vectors are
\* empty, and when either vector has only zero components.
C3_ZeroCases ==
    ret.op = "cosine" =>
        (   \/ Len0(args.a) # Len0(args.b)
            \/ (Len0(args.a) = 0 /\ Len0(args.b) = 0)
            \/ AllZero(args.a)
            \/ AllZero(args.b)
         => ret.score = Zero32)

C3_Witness ==
    /\ ret.op = "cosine"
    /\ args.a = Slice(<<Zero32, Zero32>>)
    /\ args.b = Slice(<<One32, Three32>>)
    /\ ret.score = Zero32

\* C4: for non-zero vectors of equal length the result is 1 for identical
\* vectors, -1 for a vector and its negation, 0 for vectors with no common
\* non-zero component, and always within [-1, 1], each up to 0.0001.
C4_CosineValues ==
    (ret.op = "cosine" /\ Len0(args.a) = Len0(args.b)
        /\ ~AllZero(args.a) /\ ~AllZero(args.b)) =>
        /\ (args.a.elems = args.b.elems => Near1(ret.score))
        /\ (args.b.elems = Negated(args.a) => NearNeg1(ret.score))
        /\ (Overlap(args.a, args.b) = {} => Near0(ret.score))
        /\ InRange(ret.score)

(***************************************************************************)
(* Strings: a Go string is the sequence of its bytes; []rune(s) decodes it  *)
(* as UTF-8 and string(runes) encodes the code points again.                *)
(***************************************************************************)
RuneError == 65533      \* U+FFFD, what an invalid byte decodes to
MaxRune   == 1114111    \* U+10FFFF

\* utf8.EncodeRune
EncodeRune(r) ==
    LET c == IF r < 0 \/ r > MaxRune \/ (r >= 55296 /\ r <= 57343) THEN RuneError ELSE r
        Cont(k) == 128 + ((c \div k) % 64)      \* a continuation byte
    IN  IF c < 128 THEN <<c>>
        ELSE IF c < 2048 THEN <<192 + (c \div 64), Cont(1)>>
        ELSE IF c < 65536 THEN <<224 + (c \div 4096), Cont(64), Cont(1)>>
        ELSE <<240 + (c \div 262144), Cont(4096), Cont(64), Cont(1)>>

\* utf8.DecodeRune on the bytes of b from index i: the code point and its width;
\* an invalid or truncated encoding is RuneError of width 1.
DecodeRuneAt(b, i) ==
    LET b0 == b[i]
        Has(k, lo, hi) == i + k <= Len(b) /\ b[i + k] >= lo /\ b[i + k] <= hi
        Low(k) == b[i + k] % 64
        bad == [r |-> RuneError, size |-> 1]
    IN  IF b0 < 128 THEN [r |-> b0, size |-> 1]
        ELSE IF b0 >= 194 /\ b0 <= 223
             THEN IF Has(1, 128, 191)
                  THEN [r |-> ((b0 % 32) * 64) + Low(1), size |-> 2]
                  ELSE bad
        ELSE IF b0 >= 224 /\ b0 <= 239
             THEN IF /\ Has(1, IF b0 = 224 THEN 160 ELSE 128, IF b0 = 237 THEN 159 ELSE 191)
                     /\ Has(2, 128, 191)
                  THEN [r |-> ((b0 % 16) * 4096) + (Low(1) * 64) + Low(2), size |-> 3]
                  ELSE bad
        ELSE IF b0 >= 240 /\ b0 <= 244
             THEN IF /\ Has(1, IF b0 = 240 THEN 144 ELSE 128, IF b0 = 244 THEN 143 ELSE 191)
                     /\ Has(2, 128, 191)
                     /\ Has(3, 128, 191)
                  THEN [r |-> ((b0 % 8) * 262144) + (Low(1) * 4096) + (Low(2) * 64) + Low(3),
                        size |-> 4]
                  ELSE bad
        ELSE bad

\* []rune(s)
RECURSIVE RunesFrom(_, _)
RunesFrom(b, i) ==
    IF i > Len(b) THEN << >>
    ELSE LET d == DecodeRuneAt(b, i) IN <<d.r>> \o RunesFrom(b, i + d.size)

Runes(s) == RunesFrom(s, 1)

\* string(runes)
String(runes) == Concat([i \in 1..Len(runes) |-> EncodeRune(runes[i])])

\* utf8.ValidString: decoding meets no invalid byte.
ValidString(str) == String(Runes(str)) = str

(***************************************************************************)
(* The task signature SaveExperience derives from the pattern.             *)
(***************************************************************************)
SigLimit == 50

SQLiteStore        == "SQLiteStore"                 \* postgres.go:310
PostgresStore      == "PostgresStore"               \* postgres.go:22
PostgresStoreRunes == "PostgresStore (store.go)"    \* store.go:56

\* if len(signature) > 50 { signature = signature[:50] }
signatureBytes(pattern) ==
    IF Len(pattern) > SigLimit THEN SubSeq(pattern, 1, SigLimit) ELSE pattern

\* runes := []rune(signature); if len(runes) > 50 { signature = string(runes[:50]) }
signatureRunes(pattern) ==
    LET runes == Runes(pattern)
    IN  IF Len(runes) > SigLimit THEN String(SubSeq(runes, 1, SigLimit)) ELSE pattern

signature(store, pattern) ==
    IF store = PostgresStore THEN signatureBytes(pattern) ELSE signatureRunes(pattern)

(***************************************************************************)
(* The issue_history table and SaveExperience                              *)
(*                                                                         *)
(* A row is [id, task_signature, error_pattern, root_cause,                *)
(* solution_summary, embedding]; the embedding column holds a BLOB in      *)
(* SQLite and a pgvector vector in PostgreSQL, NilSlice standing for NULL. *)
(***************************************************************************)
NoError == "nil"        \* the nil error

\* An id that is the last one used again.
LastID(rows) == IF rows = << >> THEN 1 ELSE rows[Len(rows)].id

\* id INTEGER PRIMARY KEY AUTOINCREMENT / SERIAL: an id never used before.
NextID(rows) == IF rows = << >> THEN 1 ELSE rows[Len(rows)].id + 1

\* The value bound to the embedding column: the encoded blob in SQLite (a nil
\* []byte binds as NULL), the vector itself in PostgreSQL.
EmbeddingColumn(store, vector) ==
    IF store = SQLiteStore THEN encodeVector(vector)
    ELSE IF IsNil(vector) THEN NilSlice ELSE Slice(vector.elems)

\* A save in two statements, the row first and its embedding second: a
\* failure between the two leaves the row without its embedding.
ExecInsertThenUpdate(store, rows, sig, pattern, cause, solution, vector) ==
    LET row == [id               |-> NextID(rows),
                task_signature   |-> sig,
                error_pattern    |-> pattern,
                root_cause       |-> cause,
                solution_summary |-> solution,
                embedding        |-> EmbeddingColumn(store, vector),
                occurred_at      |-> NextID(rows)]
    IN  {[rows |-> rows, err |-> "failed to save experience"],
         [rows |-> Append(rows, [row EXCEPT !.embedding = NilSlice]),
          err |-> "failed to save experience"],
         [rows |-> Append(rows, row), err |-> NoError]}

\* occurred_at is the column's DEFAULT CURRENT_TIMESTAMP: the time of the
\* insert, counted here in inserts.
\* The INSERT statement, s.db.ExecContext / s.pool.Exec.  The statement is one
\* autocommitted INSERT: the database adds the whole row or nothing.  It may
\* fail before it commits (outage, context cancelled) and insert nothing;
\* PostgreSQL (a UTF8 database) refuses a text that is not valid UTF-8 and
\* pgvector refuses a vector of no dimensions.  The call may also report an
\* error after the statement has committed, when the context is cancelled or
\* the connection is lost before the result comes back: the driver then
\* returns the context's error and the row is in the table.
ExecInsert(store, rows, sig, pattern, cause, solution, vector) ==
    LET row == [id               |-> NextID(rows),
                task_signature   |-> sig,
                error_pattern    |-> pattern,
                root_cause       |-> cause,
                solution_summary |-> solution,
                embedding        |-> EmbeddingColumn(store, vector),
                occurred_at      |-> NextID(rows)]
        failed   == [rows |-> rows, err |-> "failed to save experience"]
        inserted == [rows |-> Append(rows, row), err |-> NoError]
        reported == [rows |-> Append(rows, row), err |-> "failed to save experience"]
        refused  == \/ Len0(vector) = 0
                    \/ \E text \in {sig, pattern, cause, solution} : ~ValidString(text)
    IN  IF store # SQLiteStore /\ refused THEN {failed} ELSE {inserted, failed, reported}

\* A SaveExperience that refuses a call whose three texts are all empty.
SaveExperienceValidating(store, rows, pattern, cause, solution, vector) ==
    IF pattern = << >> /\ cause = << >> /\ solution = << >>
    THEN {[rows |-> rows, err |-> "pattern, cause and solution are empty"]}
    ELSE ExecInsert(store, rows, signature(store, pattern), pattern, cause, solution, vector)

\* SaveExperience: the table and the error the call can end with.
SaveExperienceOutcomes(store, rows, pattern, cause, solution, vector) ==
    ExecInsert(store, rows, signature(store, pattern), pattern, cause, solution, vector)

SaveExperience(pattern, cause, solution, vector) ==
    /\ \E out \in SaveExperienceOutcomes(impl, issue_history, pattern, cause, solution, vector) :
          /\ issue_history' = out.rows
          /\ ret' = [op |-> "SaveExperience", err |-> out.err]
    /\ args' = [fn |-> "SaveExperience", pattern |-> pattern, cause |-> cause,
                solution |-> solution, vector |-> vector]
    /\ UNCHANGED <<impl, service, project_rules>>

(***************************************************************************)
(* SearchSimilarIssues                                                     *)
(***************************************************************************)
Experience(row, score) ==
    [ID              |-> row.id,
     TaskSignature   |-> row.task_signature,
     ErrorPattern    |-> row.error_pattern,
     RootCause       |-> row.root_cause,
     Solution        |-> row.solution_summary,
     SimilarityScore |-> score,
     OccurredAt      |-> row.occurred_at]

\* WHERE embedding IS NOT NULL
EmbeddingNotNull(rows) == SelectSeq(rows, LAMBDA r : ~IsNil(r.embedding))

SearchFailed(err) == [err |-> err, panic |-> FALSE, experiences |-> NilSlice]
SearchPanic == [err |-> NoError, panic |-> TRUE, experiences |-> NilSlice]
SearchResult(experiences) == [err |-> NoError, panic |-> FALSE, experiences |-> experiences]

\* A candidate test that ranks every decodable vector, whatever its length.
EligibleAnyLength(storedVector, queryVector) == Len0(storedVector) > 0

\* len(storedVector) > 0 && len(storedVector) == len(queryVector)
Eligible(storedVector, queryVector) ==
    Len0(storedVector) > 0 /\ Len0(storedVector) = Len0(queryVector)

\* A scan that ranks every row of the table, with or without a vector.
ScanAllRows(rows, queryVector) ==
    [i \in 1..Len(rows) |->
        Experience(rows[i], cosineSimilarity(queryVector, decodeVector(rows[i].embedding)))]

\* The results slice the scan loop builds, in scan order.
ScanResults(rows, queryVector) ==
    LET kept == SelectSeq(EmbeddingNotNull(rows),
                          LAMBDA r : Eligible(decodeVector(r.embedding), queryVector))
    IN  [i \in 1..Len(kept) |->
            Experience(kept[i], cosineSimilarity(queryVector, decodeVector(kept[i].embedding)))]

\* func(i, j int) bool { return results[i].score > results[j].score }
Less(x, y) == F32Gt(x.SimilarityScore, y.SimilarityScore)

Reordered(s) ==
    {[i \in 1..Len(s) |-> s[p[i]]] : p \in Permutations(1..Len(s))}

\* sort.Slice: the slice sorted by less.  The sort is not stable, so elements
\* that compare equal come in any order; when less is no strict weak ordering
\* (a NaN score compares false with everything) the order is unspecified.
sortSlice(s) ==
    LET Same(x, y) == ~Less(x, y) /\ ~Less(y, x)
        weak == \A i, j, k \in 1..Len(s) :
                    Same(s[i], s[j]) /\ Same(s[j], s[k]) => Same(s[i], s[k])
    IN  IF weak
        THEN {t \in Reordered(s) : \A i, j \in 1..Len(t) : i < j => ~Less(t[j], t[i])}
        ELSE Reordered(s)

\* The sort and the cut to the first topK results; make([]Experience, topK)
\* panics when topK is negative.
SortAndCut(results, topK) ==
    IF topK < 0 THEN {SearchPanic}
    ELSE {SearchResult(Slice(SubSeq(t, 1, topK))) : t \in sortSlice(results)}

TopK(results, limit) == SortAndCut(results, Min(limit, Len(results)))

\* SQLiteStore.SearchSimilarIssues; the query may fail in the database.
\* A search that passes over the records whose vector is all zero.
SQLiteSearchSkippingZero(rows, queryVector, limit) ==
    {SearchFailed("failed to query issues")}
        \cup TopK(ScanResults(SelectSeq(rows, LAMBDA r : ~AllZero(decodeVector(r.embedding))),
                              queryVector), limit)

SQLiteSearchOutcomes(rows, queryVector, limit) ==
    {SearchFailed("failed to query issues")}
        \cup TopK(ScanResults(rows, queryVector), limit)

\* pgvector's cosine distance, embedding <=> $1: float accumulators, the
\* similarity kept in [-1, 1], NaN when a norm is zero.  (float8 steps are
\* taken in float32 here; on the vectors this model draws both are exact.)
F32Sub(x, y) == F32Add(x, [y EXCEPT !.s = 1 - @])

KeepInRange(sim) ==
    IF F32Gt(sim, One32) THEN One32
    ELSE IF F32Gt(NegOne32, sim) THEN NegOne32 ELSE sim

DistanceOfSums(acc) ==
    F32Sub(One32, KeepInRange(F32Div(acc.dot, F32Sqrt(F32Mul(acc.normA, acc.normB)))))

CosineDistance(a, b) == DistanceOfSums(CosLoop(a, b, 1, ZeroSums))

\* ORDER BY embedding <=> $1: ascending, NaN after every number, rows of equal
\* distance in any order.
DistanceBefore(x, y) ==
    IF IsNaN(x.distance) THEN FALSE
    ELSE IF IsNaN(y.distance) THEN TRUE
    ELSE F32Gt(y.distance, x.distance)

OrderByDistance(s) ==
    {t \in Reordered(s) : \A i, j \in 1..Len(t) : i < j => ~DistanceBefore(t[j], t[i])}

\* PostgresStore.SearchSimilarIssues.  The query fails when the database
\* fails, when the query vector has no dimensions, when LIMIT is negative and
\* when <=> meets a stored vector of another dimension (LIMIT 0 may return
\* before any row is read).
Found(t, n) ==
    IF n = 0 THEN NilSlice
    ELSE Slice([i \in 1..n |-> Experience(t[i].row, F32Sub(One32, t[i].distance))])

Distances(scanned, queryVector) ==
    [i \in 1..Len(scanned) |->
        [distance |-> CosineDistance(scanned[i].embedding, queryVector),
         row      |-> scanned[i]]]

Select(scanned, queryVector, limit) ==
    IF Len0(queryVector) = 0 \/ limit < 0 THEN {}
    ELSE IF \E i \in 1..Len(scanned) : Len0(scanned[i].embedding) # Len0(queryVector)
         THEN (IF limit = 0 THEN {SearchResult(NilSlice)} ELSE {})
    ELSE {SearchResult(Found(t, Min(limit, Len(scanned)))) :
              t \in OrderByDistance(Distances(scanned, queryVector))}

PostgresSearchOutcomes(rows, queryVector, limit) ==
    {SearchFailed("failed to search similar issues")}
        \cup Select(EmbeddingNotNull(rows), queryVector, limit)

SearchOutcomes(store, rows, queryVector, limit) ==
    IF store = SQLiteStore THEN SQLiteSearchOutcomes(rows, queryVector, limit)
    ELSE PostgresSearchOutcomes(rows, queryVector, limit)

SearchSimilarIssues(queryVector, limit) ==
    /\ \E out \in SearchOutcomes(impl, issue_history, queryVector, limit) :
          ret' = [op |-> "SearchSimilarIssues", err |-> out.err, panic |-> out.panic,
                  experiences |-> out.experiences]
    /\ args' = [fn |-> "SearchSimilarIssues", queryVector |-> queryVector, limit |-> limit]
    /\ UNCHANGED <<impl, service, issue_history, project_rules>>

(***************************************************************************)
(* The store: saves and searches over a growing issue_history.             *)
(***************************************************************************)
MaxRows == 3        \* most rows issue_history grows to

Stores == {SQLiteStore, PostgresStoreRunes}

PatternP  == <<112>>        \* "p"
CauseC    == <<99>>         \* "c"
SolutionS == <<115>>        \* "s"

\* Rows another writer left in the table before the process started: rows
\* with a NULL embedding and, in SQLite, a blob that is no whole number of
\* floats.
SeedRow(embedding) ==
    [id               |-> 1,
     task_signature   |-> PatternP,
     error_pattern    |-> PatternP,
     root_cause       |-> CauseC,
     solution_summary |-> SolutionS,
     embedding        |-> embedding,
     occurred_at      |-> 1]

SeedRows(store) ==
    {SeedRow(NilSlice)} \cup
    (IF store = SQLiteStore THEN {SeedRow(Slice(<<0, 0, 128>>))} ELSE {})

RankVecs ==
    {Slice(<<One32>>), Slice(<<One32, Zero32>>), Slice(<<NegOne32, Zero32>>),
     Slice(<<Huge32, Zero32>>)}
RankQueries == {Slice(<<One32, Zero32>>), Slice(<<Huge32, Zero32>>)}
Limits == {0, 1, MaxRows}

Init ==
    /\ impl \in Stores
    /\ issue_history \in {<< >>} \cup {<<r>> : r \in SeedRows(impl)}
    /\ service = NoService
    /\ project_rules = << >>
    /\ args = NoCall
    /\ ret = NoCall

Next ==
    \/ \E vector \in RankVecs :
          /\ Len(issue_history) < MaxRows
          /\ SaveExperience(PatternP, CauseC, SolutionS, vector)
    \/ \E queryVector \in RankQueries, limit \in Limits :
          SearchSimilarIssues(queryVector, limit)

Spec == Init /\ [][Next]_vars

(***************************************************************************)
(* Properties of SQLiteStore.SearchSimilarIssues and of both searches      *)
(***************************************************************************)
\* The last call was a search that returned a list.
Searched(store) ==
    /\ ret.op = "SearchSimilarIssues"
    /\ impl = store
    /\ ret.err = NoError
    /\ ~ret.panic

\* The rows whose embedding decodes to a non-empty vector of the query's length.
Comparable(row, queryVector) ==
    LET v == decodeVector(row.embedding)
    IN  Len0(v) > 0 /\ Len0(v) = Len0(queryVector)

ComparableRows(rows, queryVector) ==
    SelectSeq(rows, LAMBDA r : Comparable(r, queryVector))

RowScore(row, queryVector) == cosineSimilarity(queryVector, decodeVector(row.embedding))

ReturnedIDs == {ret.experiences.elems[i].ID : i \in 1..Len0(ret.experiences)}

RowByID(id) == CHOOSE r \in {issue_history[i] : i \in 1..Len(issue_history)} : r.id = id

\* C5: for a limit k >= 0 the SQLite search returns min(k, eligible) results,
\* in non-increasing score order, each scoring at least as high as every
\* eligible record left out.
C5_Ranking ==
    (Searched(SQLiteStore) /\ args.limit >= 0) =>
        LET exps == ret.experiences.elems
            elig == ComparableRows(issue_history, args.queryVector)
        IN  /\ Len(exps) = Min(args.limit, Len(elig))
            /\ \A i \in 1..(Len(exps) - 1) :
                   F32Ge(exps[i].SimilarityScore, exps[i + 1].SimilarityScore)
            /\ \A i \in 1..Len(exps), j \in 1..Len(elig) :
                   elig[j].id \notin ReturnedIDs =>
                       F32Ge(exps[i].SimilarityScore, RowScore(elig[j], args.queryVector))

\* C6: in the SQLite search a record whose embedding does not decode to a
\* vector of the query's length is never returned, and the search has the same
\* possible results (lists and errors) as on the table without such records.
C6_MismatchSkipped ==
    (ret.op = "SearchSimilarIssues" /\ impl = SQLiteStore) =>
        /\ (Searched(SQLiteStore) =>
                \A id \in ReturnedIDs : Comparable(RowByID(id), args.queryVector))
        /\ SQLiteSearchOutcomes(issue_history, args.queryVector, args.limit)
             = SQLiteSearchOutcomes(ComparableRows(issue_history, args.queryVector),
                                    args.queryVector, args.limit)

C6_Witness ==
    /\ Searched(SQLiteStore)
    /\ Len(issue_history) = 3
    /\ issue_history[1].embedding = encodeVector(Slice(<<One32>>))
    /\ issue_history[2].embedding = encodeVector(Slice(<<NegOne32, Zero32>>))
    /\ issue_history[3].embedding = encodeVector(Slice(<<One32, Zero32>>))
    /\ args.queryVector = Slice(<<One32, Zero32>>)
    /\ args.limit = 3
    /\ Len0(ret.experiences) = 2
    /\ ret.experiences.elems[1].ID = 3
    /\ ret.experiences.elems[2].ID = 2

\* C7: in both stores a search never returns a record whose embedding is NULL.
C7_NullNeverReturned ==
    (Searched(SQLiteStore) \/ Searched(PostgresStoreRunes) \/ Searched(PostgresStore)) =>
        \A id \in ReturnedIDs : ~IsNil(RowByID(id).embedding)

C7_Witness ==
    /\ Searched(PostgresStoreRunes)
    /\ Len(issue_history) >= 2
    /\ IsNil(issue_history[1].embedding)
    /\ args.limit > Len(issue_history)
    /\ Len0(ret.experiences) = Len(issue_history) - 1

\* C8: two results of the SQLite search with equal scores come in id
\* (insertion) order.
C8_StableTies ==
    Searched(SQLiteStore) =>
        \A i, j \in 1..Len0(ret.experiences) :
            (i < j /\ F32Eq(ret.experiences.elems[i].SimilarityScore,
                            ret.experiences.elems[j].SimilarityScore))
                => ret.experiences.elems[i].ID < ret.experiences.elems[j].ID

(***************************************************************************)
(* The store under saves of varied texts (one vector, every strategy).     *)
(***************************************************************************)
MaxPatternLen == 51     \* the longest pattern, in code points
MaxTextRows   == 1      \* most rows issue_history grows to in these runs

AllStores == {SQLiteStore, PostgresStore, PostgresStoreRunes}

\* "a", a two-byte letter, a three-byte CJK character and a four-byte emoji
PatternRunes == {97, 233, 38169, 128027}
\* the lengths: 26 two-byte letters take 52 bytes
PatternLens  == {SigLimit \div 2 + 1, SigLimit, MaxPatternLen}

Patterns ==
    {<< >>} \cup {String([i \in 1..n |-> r]) : r \in PatternRunes, n \in PatternLens}

\* The texts of a call: every pattern with a cause and a solution, and every
\* mix of empty and non-empty short texts.
Texts ==
    {<<p, CauseC, SolutionS>> : p \in Patterns} \cup
    ({<< >>, PatternP} \X {<< >>, CauseC} \X {<< >>, SolutionS})

TextVec == Slice(<<One32, Zero32>>)

TextInit ==
    /\ impl \in AllStores
    /\ issue_history = << >>
    /\ service = NoService
    /\ project_rules = << >>
    /\ args = NoCall
    /\ ret = NoCall

TextNext ==
    \/ \E t \in Texts :
          /\ Len(issue_history) < MaxTextRows
          /\ SaveExperience(t[1], t[2], t[3], TextVec)
    \/ SearchSimilarIssues(TextVec, MaxTextRows)

SpecText == TextInit /\ [][TextNext]_vars

\* The first n code points of a string, as a string.
RunePrefix(str, n) == String(SubSeq(Runes(str), 1, Min(n, Len(Runes(str)))))

\* C9: in every store the task_signature of a saved record is the pattern's
\* first min(50, n) code points (n the pattern's code-point count) and is
\* valid UTF-8.
C9_Signature ==
    \A i \in 1..Len(issue_history) :
        /\ issue_history[i].task_signature = RunePrefix(issue_history[i].error_pattern, SigLimit)
        /\ ValidString(issue_history[i].task_signature)

\* C10 as the spec states it: a SaveExperience whose pattern, cause and
\* solution are all empty leaves issue_history unchanged; one with an empty
\* cause and a non-empty pattern or solution adds a record unless the
\* database fails.
C10_EmptyRejected ==
    [][args'.fn = "SaveExperience" =>
        /\ (args'.pattern = << >> /\ args'.cause = << >> /\ args'.solution = << >>)
              => issue_history' = issue_history
        /\ (args'.cause = << >> /\ (args'.pattern # << >> \/ args'.solution # << >>)
                /\ ret'.err = NoError)
              => Len(issue_history') = Len(issue_history) + 1]_vars

\* C10 as the code has it: SaveExperience does not look at the texts.  Its
\* only error is the failed INSERT; a call that returns nil has added one
\* record holding the three texts as given, all empty included, and a call
\* that returns the error has added nothing or that one record.
C10_NoValidation ==
    [][args'.fn = "SaveExperience" =>
        /\ ret'.err \in {NoError, "failed to save experience"}
        /\ ret'.err # NoError => Len(issue_history') \in {Len(issue_history), Len(issue_history) + 1}
        /\ ret'.err = NoError => Len(issue_history') = Len(issue_history) + 1
        /\ Len(issue_history') = Len(issue_history) => issue_history' = issue_history
        /\ Len(issue_history') # Len(issue_history) =>
              /\ Len(issue_history') = Len(issue_history) + 1
              /\ SubSeq(issue_history', 1, Len(issue_history)) = issue_history
              /\ LET row == issue_history'[Len(issue_history')]
                 IN  /\ row.error_pattern = args'.pattern
                     /\ row.root_cause = args'.cause
                     /\ row.solution_summary = args'.solution]_vars

C10_Witness ==
    /\ ret.op = "SaveExperience"
    /\ ret.err = NoError
    /\ args.pattern = << >> /\ args.cause = << >> /\ args.solution = << >>
    /\ Len(issue_history) = 1
    /\ issue_history[1].task_signature = << >>
    /\ issue_history[1].error_pattern = << >>
    /\ issue_history[1].root_cause = << >>
    /\ issue_history[1].solution_summary = << >>

(***************************************************************************)
(* Sessions (google.golang.org/adk/session).  An event is [Author,         *)
(* Content]; session.Event embeds model.LLMResponse, so event.Content and  *)
(* event.LLMResponse.Content are one field.  A content is nil or holds     *)
(* Parts; a part is [Text, FunctionCall], the function call nil or named.  *)
(***************************************************************************)
NilContent == [nil |-> TRUE, Parts |-> << >>]
Content(parts) == [nil |-> FALSE, Parts |-> parts]

NoFunctionCall == [nil |-> TRUE, Name |-> ""]
FunctionCall(name) == [nil |-> FALSE, Name |-> name]

TextPart(text) == [Text |-> text, FunctionCall |-> NoFunctionCall]
CallPart(name) == [Text |-> << >>, FunctionCall |-> FunctionCall(name)]

Event(author, content) == [Author |-> author, Content |-> content]

\* strings.Join(elems, sep)
RECURSIVE Join(_, _)
Join(elems, sep) ==
    IF elems = << >> THEN << >>
    ELSE IF Len(elems) = 1 THEN elems[1]
    ELSE elems[1] \o sep \o Join(Tail(elems), sep)

Space == <<32>>         \* " "

\* The non-empty texts of the parts of one content, in order.
PartTexts(c) ==
    LET texts == [i \in 1..Len(c.Parts) |-> c.Parts[i].Text]
    IN  SelectSeq(texts, LAMBDA text : text # << >>)

\* extractTextFromContent(content []*genai.Content) []string
extractTextFromContent(content) ==
    Concat([i \in 1..Len(content) |-> PartTexts(content[i])])

\* if len(textParts) > 0 { captured = strings.Join(textParts, " ") }
CaptureErasing(captured, textParts) == Join(textParts, Space)

Capture(captured, textParts) ==
    IF Len(textParts) > 0 THEN Join(textParts, Space) ELSE captured

\* The inner loop over event.Content.Parts that looks for save_experience.
HasSaveCall(content) ==
    \E i \in 1..Len(content.Parts) :
        /\ ~content.Parts[i].FunctionCall.nil
        /\ content.Parts[i].FunctionCall.Name = "save_experience"

\* The locals of AddSession before the loop.
ScanStart == [userQuery |-> << >>, agentResponse |-> << >>, hasExplicitSave |-> FALSE]

\* A loop body that assigns the flag on every event.
ScanStepAssigningFlag(st, event) ==
    IF event.Content.nil THEN [st EXCEPT !.hasExplicitSave = FALSE]
    ELSE [userQuery |->
              IF event.Author = "user"
              THEN Capture(st.userQuery, extractTextFromContent(<<event.Content>>))
              ELSE st.userQuery,
          agentResponse |->
              IF event.Author # "user"
              THEN Capture(st.agentResponse, extractTextFromContent(<<event.Content>>))
              ELSE st.agentResponse,
          hasExplicitSave |-> HasSaveCall(event.Content)]

\* One iteration of `for event := range events.All()`.
ScanStep(st, event) ==
    IF event.Content.nil THEN st
    ELSE [userQuery |->
              IF event.Author = "user"
              THEN Capture(st.userQuery, extractTextFromContent(<<event.Content>>))
              ELSE st.userQuery,
          agentResponse |->
              IF event.Author # "user"
              THEN Capture(st.agentResponse, extractTextFromContent(<<event.Content>>))
              ELSE st.agentResponse,
          hasExplicitSave |-> st.hasExplicitSave \/ HasSaveCall(event.Content)]

\* The locals after the first n events of the session.
RECURSIVE ScanTo(_, _)
ScanTo(events, n) ==
    IF n = 0 THEN ScanStart ELSE ScanStep(ScanTo(events, n - 1), events[n])

Scan(events) == ScanTo(events, Len(events))

(***************************************************************************)
(* memory.Service: AddSession (ingestion) and Search                       *)
(*                                                                         *)
(* The source holds three of them.  Service of service.go:213 is built by  *)
(* NewService(ctx, store, cfg), which always gives it an embedder.  The    *)
(* Service of service.go:13 and PostgresStore (postgres.go:22, a store     *)
(* that is its own service) take an optional embedder and return early     *)
(* when it is nil.                                                         *)
(***************************************************************************)
Service           == "Service"                     \* service.go:213
ServiceNilChecked == "Service (service.go:13)"     \* service.go:13

ServiceOf(kind, embedder) == [kind |-> kind, embedder |-> embedder]

MinResponseLen == 20    \* len(agentResponse) > 20
SearchLimit    == 10    \* SearchSimilarIssues(ctx, queryVector, 10)

\* The vectors the embedder answers with.
EmbedVecs == {Slice(<<One32, Zero32>>), Slice(<<One32>>)}

\* Embedder.Embed(ctx, text): a vector, or an error.
Embed(text) ==
    {[vector |-> v, err |-> NoError] : v \in EmbedVecs}
        \cup {[vector |-> NilSlice, err |-> "embedding failed"]}

EmbedCall(text, e) == [fn |-> "Embed", text |-> text, vector |-> e.vector, err |-> e.err]
SaveCall(pattern, cause, solution, vector, err) ==
    [fn |-> "SaveExperience", pattern |-> pattern, cause |-> cause,
     solution |-> solution, vector |-> vector, err |-> err]
SearchCall(vector, limit, err) ==
    [fn |-> "SearchSimilarIssues", queryVector |-> vector, limit |-> limit, err |-> err]

\* What AddSession ends with: the table, the error returned, the calls it
\* made to the embedder and the store, in order, each with the error it
\* returned, and its locals.
Returned(rows, err, calls, locals, scanned) ==
    [rows |-> rows, err |-> err, calls |-> calls, locals |-> locals, scanned |-> scanned]

\* The save after Embed has returned e.
SaveSession(store, rows, st, e) ==
    {Returned(out.rows,
              IF out.err = NoError THEN NoError ELSE "failed to save session to memory",
              <<EmbedCall(st.userQuery, e),
                SaveCall(st.userQuery, << >>, st.agentResponse, e.vector, out.err)>>,
              st, TRUE) :
        out \in SaveExperienceOutcomes(store, rows, st.userQuery, << >>,
                                       st.agentResponse, e.vector)}

\* An ingestion that saves with whatever Embed returned, error or not.
IngestIgnoringEmbedError(store, rows, st) ==
    UNION {SaveSession(store, rows, st, e) : e \in Embed(st.userQuery)}

\* Embed, then SaveExperience: service.go:283-294.
Ingest(store, rows, st) ==
    UNION {IF e.err # NoError
           THEN {Returned(rows, "failed to generate embedding for session",
                          <<EmbedCall(st.userQuery, e)>>, st, TRUE)}
           ELSE SaveSession(store, rows, st, e) : e \in Embed(st.userQuery)}

\* AddSession after the loop.
AfterScan(store, rows, st) ==
    IF st.hasExplicitSave THEN {Returned(rows, NoError, << >>, st, TRUE)}
    ELSE IF /\ st.userQuery # << >>
            /\ st.agentResponse # << >>
            /\ Len(st.agentResponse) > MinResponseLen
         THEN Ingest(store, rows, st)
         ELSE {Returned(rows, NoError, << >>, st, TRUE)}

AddSessionOutcomes(svc, store, rows, events) ==
    IF svc.kind # Service /\ ~svc.embedder
    THEN {Returned(rows, NoError, << >>, ScanStart, FALSE)}
    ELSE AfterScan(store, rows, Scan(events))

AddSession(sess) ==
    /\ \E out \in AddSessionOutcomes(service, impl, issue_history, sess) :
          /\ issue_history' = out.rows
          /\ ret' = [op |-> "AddSession", err |-> out.err, calls |-> out.calls,
                     locals |-> out.locals, scanned |-> out.scanned]
    /\ args' = [fn |-> "AddSession", sess |-> sess]
    /\ UNCHANGED <<impl, service, project_rules>>

\* "问题: ", "原因: ", "解决方案: " and "\n" as bytes
LabelPattern  == <<233, 151, 174, 233, 162, 152, 58, 32>>
LabelCause    == <<229, 142, 159, 229, 155, 160, 58, 32>>
LabelSolution == <<232, 167, 163, 229, 134, 179, 230, 150, 185, 230, 161, 136, 58, 32>>
NewLine       == <<10>>

\* The content built from one experience: service.go:319-330.
EntryContent(exp) ==
    Join((IF exp.ErrorPattern # << >> THEN <<LabelPattern \o exp.ErrorPattern>> ELSE << >>)
         \o (IF exp.RootCause # << >> THEN <<LabelCause \o exp.RootCause>> ELSE << >>)
         \o (IF exp.Solution # << >> THEN <<LabelSolution \o exp.Solution>> ELSE << >>),
         NewLine)

Entry(content, timestamp) ==
    [Content |-> Content(<<TextPart(content)>>), Author |-> "system", Timestamp |-> timestamp]

\* Memories with an entry for every experience, also one whose content is empty.
MemoriesKeepingEmpty(experiences) ==
    Slice([i \in 1..Len(experiences) |->
              Entry(EntryContent(experiences[i]), experiences[i].OccurredAt)])

\* The memories of a search: one entry for every experience whose content is
\* not empty, in the order of the experiences.
Memories(experiences) ==
    LET kept == SelectSeq(experiences, LAMBDA exp : EntryContent(exp) # << >>)
    IN  Slice([i \in 1..Len(kept) |-> Entry(EntryContent(kept[i]), kept[i].OccurredAt)])

\* What Search ends with: the response (nil, or its Memories), the error and
\* the calls made.
NilResponse == [nil |-> TRUE, Memories |-> NilSlice]
SearchResponse(memories) == [nil |-> FALSE, Memories |-> memories]

SearchReturned(resp, err, calls) == [resp |-> resp, err |-> err, calls |-> calls]

\* A store search whose failure is answered with an empty result.
SearchStoreFallingBack(store, rows, query, e) ==
    {SearchReturned(SearchResponse(IF out.err # NoError THEN Slice(<< >>)
                                   ELSE Memories(out.experiences.elems)), NoError,
                    <<EmbedCall(query, e), SearchCall(e.vector, SearchLimit, out.err)>>) :
        out \in SearchOutcomes(store, rows, e.vector, SearchLimit)}

\* The part of Search after a successful Embed.
SearchStore(store, rows, query, e) ==
    {IF out.err # NoError
     THEN SearchReturned(NilResponse, "failed to search similar issues",
                         <<EmbedCall(query, e), SearchCall(e.vector, SearchLimit, out.err)>>)
     ELSE SearchReturned(SearchResponse(Memories(out.experiences.elems)), NoError,
                         <<EmbedCall(query, e), SearchCall(e.vector, SearchLimit, out.err)>>) :
        out \in SearchOutcomes(store, rows, e.vector, SearchLimit)}

\* A Search that answers every failure with an empty result.
ServiceSearchSwallowing(svc, store, rows, query) ==
    IF svc.kind # Service /\ ~svc.embedder
    THEN {SearchReturned(SearchResponse(Slice(<< >>)), NoError, << >>)}
    ELSE UNION {IF e.err # NoError
                THEN {SearchReturned(SearchResponse(Slice(<< >>)), NoError,
                                     <<EmbedCall(query, e)>>)}
                ELSE {[r EXCEPT !.resp = IF r.err # NoError THEN SearchResponse(Slice(<< >>))
                                         ELSE @,
                                !.err = NoError] :
                         r \in SearchStore(store, rows, query, e)} : e \in Embed(query)}

\* Service.Search / PostgresStore.Search
ServiceSearchOutcomes(svc, store, rows, query) ==
    IF svc.kind # Service /\ ~svc.embedder
    THEN {SearchReturned(SearchResponse(Slice(<< >>)), NoError, << >>)}
    ELSE UNION {IF e.err # NoError
                THEN {SearchReturned(NilResponse, "failed to generate query embedding",
                                     <<EmbedCall(query, e)>>)}
                ELSE SearchStore(store, rows, query, e) : e \in Embed(query)}

Search(query) ==
    /\ \E out \in ServiceSearchOutcomes(service, impl, issue_history, query) :
          ret' = [op |-> "Search", err |-> out.err, resp |-> out.resp, calls |-> out.calls]
    /\ args' = [fn |-> "Search", query |-> query]
    /\ UNCHANGED <<impl, service, issue_history, project_rules>>

(***************************************************************************)
(* The service handed one session or one query.                            *)
(***************************************************************************)
MaxTurns      == 3      \* most events of a session
MaxIngestRows == 2      \* most rows issue_history grows to in these runs

QueryQ == <<113>>       \* "q"
QueryR == <<114>>       \* "r"
TextOk == <<111, 107>>  \* "ok"
Letters(n) == [i \in 1..n |-> 97]
\* "好的，谢谢你。": 7 code points in 21 bytes
TextThanks == String(<<22909, 30340, 65292, 35874, 35874, 20320, 12290>>)

IngestEvents ==
    {Event("user", Content(<<TextPart(QueryQ)>>)),
     Event("user", Content(<<TextPart(QueryR), TextPart(QueryQ)>>)),
     Event("user", Content(<<TextPart(<< >>)>>)),
     Event("user", NilContent),
     Event("user", Content(<<CallPart("save_experience")>>)),
     Event("assistant", Content(<<TextPart(TextOk)>>)),
     Event("assistant", Content(<<TextPart(Letters(MinResponseLen))>>)),
     Event("assistant", Content(<<TextPart(Letters(MinResponseLen + 1))>>)),
     Event("assistant", Content(<<TextPart(TextThanks)>>)),
     Event("assistant", Content(<<CallPart("read_file_content")>>)),
     Event("assistant", Content(<<TextPart(Letters(MinResponseLen + 1)),
                                  CallPart("save_experience")>>))}

Sessions == SeqsUpTo(IngestEvents, MaxTurns)

\* The store and the service built over it.
Services ==
    {<<SQLiteStore, ServiceOf(Service, TRUE)>>,
     <<PostgresStoreRunes, ServiceOf(Service, TRUE)>>,
     <<PostgresStore, ServiceOf(PostgresStore, TRUE)>>,
     <<PostgresStore, ServiceOf(PostgresStore, FALSE)>>}
    \cup {<<store, ServiceOf(ServiceNilChecked, e)>> :
             store \in {SQLiteStore, PostgresStoreRunes}, e \in BOOLEAN}

\* A row saved before the process started.
IngestSeed(store) == SeedRow(EmbeddingColumn(store, Slice(<<One32, Zero32>>)))

IngestInit ==
    /\ \E c \in Services : impl = c[1] /\ service = c[2]
    /\ issue_history \in {<< >>, <<IngestSeed(impl)>>}
    /\ project_rules = << >>
    /\ args \in {[fn |-> "AddSession", sess |-> sess] : sess \in Sessions}
                \cup {[fn |-> "Search", query |-> QueryQ]}
    /\ ret = NoCall

IngestNext ==
    \/ /\ args.fn = "AddSession"
       /\ Len(issue_history) < MaxIngestRows
       /\ AddSession(args.sess)
    \/ /\ args.fn = "Search"
       /\ Search(args.query)

SpecIngest == IngestInit /\ [][IngestNext]_vars

(***************************************************************************)
(* Properties of AddSession and Search                                     *)
(***************************************************************************)
Ingested == ret.op = "AddSession" /\ args.fn = "AddSession"

\* Some part of the event is a function call named save_experience.
CallsSaveExperience(event) ==
    /\ ~event.Content.nil
    /\ \E i \in 1..Len(event.Content.Parts) :
          event.Content.Parts[i].FunctionCall = FunctionCall("save_experience")

\* The calls of the given name among the calls of the last operation.
CallsTo(fn) == {i \in 1..Len(ret.calls) : ret.calls[i].fn = fn}

\* C11: if any turn of the session, at any position and by any author, holds
\* a function call named save_experience, AddSession calls neither the
\* embedder nor SaveExperience and returns nil, whatever the other turns hold;
\* once the flag is set during the scan no later turn clears it.
C11_ExplicitSaveSuppresses ==
    (Ingested /\ \E i \in 1..Len(args.sess) : CallsSaveExperience(args.sess[i])) =>
        /\ ret.calls = << >>
        /\ ret.err = NoError
        /\ ret.scanned => ret.locals.hasExplicitSave
        /\ \A i \in 1..Len(args.sess) :
              CallsSaveExperience(args.sess[i]) =>
                  \A j \in i..Len(args.sess) : ScanTo(args.sess, j).hasExplicitSave

\* The user marks the save in the first turn; a question and a long answer
\* follow; the service has an embedder and has scanned the session.
C11_Witness ==
    /\ Ingested
    /\ service.embedder /\ ret.scanned
    /\ args.sess = <<Event("user", Content(<<CallPart("save_experience")>>)),
                     Event("user", Content(<<TextPart(QueryQ)>>)),
                     Event("assistant", Content(<<TextPart(Letters(MinResponseLen + 1))>>))>>
    /\ ret.locals.userQuery = QueryQ
    /\ ret.locals.agentResponse = Letters(MinResponseLen + 1)
    /\ ret.calls = << >>

\* The turns by the user (or not by the user) that hold a non-empty text.
TurnsWithText(events, byUser) ==
    {i \in 1..Len(events) :
        /\ (events[i].Author = "user") = byUser
        /\ ~events[i].Content.nil
        /\ \E k \in 1..Len(events[i].Content.Parts) : events[i].Content.Parts[k].Text # << >>}

\* The space-joined texts of the last such turn, "" when there is none.
LastText(events, byUser) ==
    LET turns == TurnsWithText(events, byUser)
        last  == CHOOSE i \in turns : \A j \in turns : j <= i
    IN  IF turns = {} THEN << >> ELSE Join(PartTexts(events[last].Content), Space)

\* C12: after the scan, query is the space-joined text parts of the last
\* user-authored turn with a non-empty text part and response the same for
\* the last turn not authored by the user: a later turn with text overwrites
\* an earlier capture, a later turn without text never erases one.
C12_MostRecentWins ==
    (Ingested /\ ret.scanned) =>
        /\ ret.locals.userQuery = LastText(args.sess, TRUE)
        /\ ret.locals.agentResponse = LastText(args.sess, FALSE)

\* Two user turns with text, then a user turn with only an empty text.
C12_Witness ==
    /\ Ingested /\ ret.scanned
    /\ args.sess = <<Event("user", Content(<<TextPart(QueryQ)>>)),
                     Event("user", Content(<<TextPart(QueryR), TextPart(QueryQ)>>)),
                     Event("user", Content(<<TextPart(<< >>)>>))>>
    /\ ret.locals.userQuery = QueryR \o Space \o QueryQ
    /\ ret.locals.agentResponse = << >>

\* C13: when no explicit save was seen, AddSession persists if and only if
\* query is non-empty, response is non-empty and the response is longer than
\* 20 characters; when it persists it calls SaveExperience exactly once with
\* pattern = query, cause = "", solution = response and vector = Embed(query)
\* (the call is made once Embed has succeeded); a response of 20 characters
\* or fewer persists nothing and returns nil.
C13_IngestionDecision ==
    (Ingested /\ ret.scanned /\ ~ret.locals.hasExplicitSave) =>
        LET query    == ret.locals.userQuery
            response == ret.locals.agentResponse
        IN  IF query # << >> /\ response # << >> /\ Len(Runes(response)) > MinResponseLen
            THEN /\ Len(ret.calls) >= 1
                 /\ ret.calls[1].fn = "Embed"
                 /\ ret.calls[1].text = query
                 /\ ret.calls[1].err = NoError =>
                       /\ Len(ret.calls) = 2
                       /\ ret.calls[2].fn = "SaveExperience"
                       /\ ret.calls[2].pattern = query
                       /\ ret.calls[2].cause = << >>
                       /\ ret.calls[2].solution = response
                       /\ ret.calls[2].vector = ret.calls[1].vector
            ELSE ret.calls = << >> /\ ret.err = NoError

\* C14 as the spec states it: within one AddSession call Embed is called at
\* most once and SaveExperience at most once, SaveExperience only after Embed
\* has returned successfully; if Embed fails AddSession returns a non-nil
\* error and SaveExperience is never called; if SaveExperience fails
\* AddSession returns a non-nil error and no record is added.
C14_FailuresSurfaced ==
    [][(args'.fn = "AddSession" /\ ret'.op = "AddSession") =>
        /\ Len(ret'.calls) <= 2
        /\ \A i \in 1..Len(ret'.calls) :
              /\ ret'.calls[i].fn = "Embed" => i = 1
              /\ ret'.calls[i].fn = "SaveExperience" =>
                    i = 2 /\ ret'.calls[1].fn = "Embed" /\ ret'.calls[1].err = NoError
              /\ ret'.calls[i].err # NoError => ret'.err # NoError
              /\ (ret'.calls[i].fn = "SaveExperience" /\ ret'.calls[i].err # NoError)
                    => issue_history' = issue_history]_vars

\* C14 as the code has it: the same, but a SaveExperience that returns an
\* error has added no record or the one record of that call (the INSERT had
\* committed before the error was reported); no other record is added and
\* none is changed.
C14_SurfacedNotRetried ==
    [][(args'.fn = "AddSession" /\ ret'.op = "AddSession") =>
        /\ Len(ret'.calls) <= 2
        /\ \A i \in 1..Len(ret'.calls) :
              /\ ret'.calls[i].fn = "Embed" => i = 1
              /\ ret'.calls[i].fn = "SaveExperience" =>
                    i = 2 /\ ret'.calls[1].fn = "Embed" /\ ret'.calls[1].err = NoError
              /\ ret'.calls[i].err # NoError => ret'.err # NoError
              /\ (ret'.calls[i].fn = "SaveExperience" /\ ret'.calls[i].err # NoError) =>
                    \/ issue_history' = issue_history
                    \/ /\ Len(issue_history') = Len(issue_history) + 1
                       /\ SubSeq(issue_history', 1, Len(issue_history)) = issue_history
                       /\ issue_history'[Len(issue_history')].error_pattern
                             = ret'.calls[i].pattern
        /\ (\A i \in 1..Len(ret'.calls) : ret'.calls[i].fn # "SaveExperience")
              => issue_history' = issue_history]_vars

\* Embed succeeded, SaveExperience failed and AddSession returned the error.
C14_Witness ==
    /\ Ingested
    /\ Len(ret.calls) = 2
    /\ ret.calls[1].fn = "Embed" /\ ret.calls[1].err = NoError
    /\ ret.calls[2].fn = "SaveExperience" /\ ret.calls[2].err # NoError
    /\ ret.err = "failed to save session to memory"
    /\ issue_history = << >>

\* C15: a service or store built with a nil embedder answers Search with an
\* empty, non-nil memory list and a nil error without querying the store,
\* and AddSession with nil without persisting anything; in every other case
\* a failed embedding or a failed store query makes Search return an error,
\* never an empty result.
C15_DegradedMode ==
    /\ (ret.op \in {"Search", "AddSession"} /\ ~service.embedder) =>
          /\ ret.err = NoError
          /\ ret.calls = << >>
          /\ ret.op = "Search" =>
                /\ ~ret.resp.nil
                /\ ~IsNil(ret.resp.Memories)
                /\ Len0(ret.resp.Memories) = 0
    /\ (ret.op = "Search" /\ service.embedder) =>
          /\ Len(ret.calls) >= 1
          /\ (\E i \in 1..Len(ret.calls) : ret.calls[i].err # NoError)
                => ret.err # NoError /\ ret.resp.nil
          /\ ret.err = NoError => ~ret.resp.nil /\ Len(ret.calls) = 2

\* Search without an embedder over a table that holds a record.
C15_Witness ==
    /\ ret.op = "Search"
    /\ ~service.embedder
    /\ Len(issue_history) = 1
    /\ ret.resp = SearchResponse(Slice(<< >>))
    /\ ret.err = NoError

(***************************************************************************)
(* GetProjectRules                                                         *)
(*                                                                         *)
(* A rule is [id, category, rule_content, priority, is_active].            *)
(***************************************************************************)
\* s < t for two strings, byte by byte (the order of TEXT in SQLite; for
\* ASCII capitals the order of every PostgreSQL collation).
RECURSIVE BytesLess(_, _)
BytesLess(x, y) ==
    IF y = << >> THEN FALSE
    ELSE IF x = << >> THEN TRUE
    ELSE IF Head(x) # Head(y) THEN Head(x) < Head(y)
    ELSE BytesLess(Tail(x), Tail(y))

\* A WHERE clause that keeps every rule.
AnyRule(rule) == TRUE

\* WHERE is_active = 1 (WHERE is_active = TRUE in PostgreSQL)
IsActive(rule) == rule.is_active

\* ORDER BY priority DESC, category, id
RuleBefore(x, y) ==
    IF x.priority # y.priority THEN x.priority > y.priority
    ELSE IF x.category # y.category THEN BytesLess(x.category, y.category)
    ELSE x.id < y.id

OrderRules(rules) ==
    {t \in Reordered(rules) : \A i, j \in 1..Len(t) : i < j => ~RuleBefore(t[j], t[i])}

\* The loop over rows: `var rules []string` stays nil when no row comes.
RuleContents(t) ==
    IF t = << >> THEN NilSlice ELSE Slice([i \in 1..Len(t) |-> t[i].rule_content])

\* A retrieval that returns the active rules in whatever order the scan meets
\* them.
GetProjectRulesUnordered(store, rules) ==
    {[err |-> "failed to query project rules", rules |-> NilSlice]}
        \cup {[err |-> NoError, rules |-> RuleContents(t)] :
                 t \in Reordered(SelectSeq(rules, IsActive))}

GetProjectRulesOutcomes(store, rules) ==
    {[err |-> "failed to query project rules", rules |-> NilSlice]}
        \cup {[err |-> NoError, rules |-> RuleContents(t)] :
                 t \in OrderRules(SelectSeq(rules, IsActive))}

GetProjectRules ==
    /\ \E out \in GetProjectRulesOutcomes(impl, project_rules) :
          ret' = [op |-> "GetProjectRules", err |-> out.err, rules |-> out.rules]
    /\ args' = [fn |-> "GetProjectRules"]
    /\ UNCHANGED <<impl, service, issue_history, project_rules>>

(***************************************************************************)
(* The store over a project_rules table that was seeded before the         *)
(* process started; nothing in the package writes the table.               *)
(***************************************************************************)
MaxRules == 3       \* most rows of project_rules

Categories   == {<<83, 69>>, <<83, 84>>}    \* "SE", "ST"
RuleText(id) == <<119 + id>>                \* "x", "y", "z", ...: one text per rule
Priorities   == {1, 2}

Rule(id, category, content, priority, active) ==
    [id |-> id, category |-> category, rule_content |-> content,
     priority |-> priority, is_active |-> active]

\* Every table of n rules, with ids 1..n in rowid order.
RuleTables(n) ==
    {[i \in 1..n |-> Rule(i, c[i], RuleText(i), q[i], a[i])] :
        c \in [1..n -> Categories], q \in [1..n -> Priorities], a \in [1..n -> BOOLEAN]}

RulesInit ==
    /\ impl \in Stores
    /\ service = NoService
    /\ issue_history = << >>
    /\ project_rules \in UNION {RuleTables(n) : n \in 0..MaxRules}
    /\ args = NoCall
    /\ ret = NoCall

RulesNext == GetProjectRules

SpecRules == RulesInit /\ [][RulesNext]_vars

\* The place of an active rule in the answer: one more than the number of
\* active rules that come before it.
ActiveRules == {i \in 1..Len(project_rules) : project_rules[i].is_active}

Outranks(x, y) ==
    \/ x.priority > y.priority
    \/ x.priority = y.priority /\ BytesLess(x.category, y.category)
    \/ x.priority = y.priority /\ x.category = y.category /\ x.id < y.id

PlaceOf(i) ==
    1 + Cardinality({j \in ActiveRules : Outranks(project_rules[j], project_rules[i])})

\* C16: for any contents of project_rules, GetProjectRules returns the
\* rule_content of exactly the active rules (no inactive rule is returned, no
\* active rule is left out), ordered by priority descending, then category
\* ascending, then id ascending.
C16_RuleRetrieval ==
    (ret.op = "GetProjectRules" /\ ret.err = NoError) =>
        /\ Len0(ret.rules) = Cardinality(ActiveRules)
        /\ \A i \in ActiveRules :
              ret.rules.elems[PlaceOf(i)] = project_rules[i].rule_content

\* Priorities [2, 1, 1] with active flags [true, true, false]: two rules are
\* returned, the one of priority 2 first.
C16_Witness ==
    /\ ret.op = "GetProjectRules" /\ ret.err = NoError
    /\ Len(project_rules) = 3
    /\ project_rules[1].priority = 2 /\ project_rules[1].is_active
    /\ project_rules[2].priority = 1 /\ project_rules[2].is_active
    /\ project_rules[3].priority = 1 /\ ~project_rules[3].is_active
    /\ project_rules[1].rule_content # project_rules[2].rule_content
    /\ ret.rules = Slice(<<project_rules[1].rule_content, project_rules[2].rule_content>>)

(***************************************************************************)
(* Every operation of the store and of the service, in any order.          *)
(***************************************************************************)
MaxLogRows == 2     \* most rows issue_history grows to in these runs

LogSessions ==
    {<<Event("user", Content(<<TextPart(QueryQ)>>)),
       Event("assistant", Content(<<TextPart(Letters(MinResponseLen + 1))>>))>>,
     <<Event("user", Content(<<TextPart(QueryQ)>>)),
       Event("assistant", Content(<<TextPart(Letters(MinResponseLen + 1)),
                                    CallPart("save_experience")>>))>>,
     <<Event("user", Content(<<TextPart(QueryQ)>>)),
       Event("assistant", Content(<<TextPart(TextOk)>>))>>}

LogInit ==
    /\ \E c \in Services : impl = c[1] /\ service = c[2]
    /\ issue_history \in {<< >>, <<IngestSeed(impl)>>}
    /\ project_rules \in {<< >>} \cup {<<Rule(1, c, <<120>>, 1, TRUE)>> : c \in Categories}
    /\ args = NoCall
    /\ ret = NoCall

LogNext ==
    \/ GetProjectRules
    \/ \E limit \in {1, MaxLogRows} : SearchSimilarIssues(TextVec, limit)
    \/ /\ Len(issue_history) < MaxLogRows
       /\ SaveExperience(PatternP, CauseC, SolutionS, TextVec)
    \/ \E sess \in LogSessions :
          /\ Len(issue_history) < MaxLogRows
          /\ AddSession(sess)
    \/ Search(QueryQ)

SpecLog == LogInit /\ [][LogNext]_vars

\* The step called SaveExperience: directly, or from AddSession.
SaveReturned(err) ==
    \/ args'.fn = "SaveExperience" /\ ret'.err = err
    \/ /\ args'.fn = "AddSession"
       /\ \E i \in 1..Len(ret'.calls) :
             ret'.calls[i].fn = "SaveExperience" /\ ret'.calls[i].err = err

AddedTheRow ==
    /\ Len(issue_history') = Len(issue_history) + 1
    /\ SubSeq(issue_history', 1, Len(issue_history)) = issue_history
    /\ LET row == issue_history'[Len(issue_history')]
       IN  /\ row.task_signature = signature(impl, args'.pattern)
           /\ row.error_pattern = args'.pattern
           /\ row.root_cause = args'.cause
           /\ row.solution_summary = args'.solution
           /\ row.embedding = EmbeddingColumn(impl, args'.vector)

\* C18 as the spec states it: a SaveExperience call either returns nil having
\* added exactly one complete row (signature, pattern, cause, solution and
\* embedding all from that call) or returns an error, a cancelled context
\* included, having left issue_history unchanged.
C18_SaveAtomic ==
    [][args'.fn = "SaveExperience" =>
        \/ ret'.err = NoError /\ AddedTheRow
        \/ ret'.err # NoError /\ issue_history' = issue_history]_vars

\* C18 as the code has it: a SaveExperience call leaves issue_history
\* unchanged or adds exactly one complete row, never a part of one; a call
\* that returns nil has added the row; a call that returns an error has
\* added nothing, or has added the row when the error (a cancelled context,
\* a lost connection) came after the INSERT had committed.
C18_AllOrNothing ==
    [][args'.fn = "SaveExperience" =>
        /\ issue_history' = issue_history \/ AddedTheRow
        /\ ret'.err = NoError => AddedTheRow]_vars

\* SaveExperience returned an error and the row of the call is in the table.
C18_Witness ==
    /\ ret.op = "SaveExperience" /\ args.fn = "SaveExperience"
    /\ ret.err = "failed to save experience"
    /\ Len(issue_history) = 1
    /\ issue_history[1].error_pattern = args.pattern
    /\ issue_history[1].embedding = EmbeddingColumn(impl, args.vector)

(***************************************************************************)
(* Concurrent calls into one store.                                        *)
(*                                                                         *)
(* Each call runs in a goroutine of its own; args[p] is the call of        *)
(* goroutine p with its position (pc) and locals, ret[p] what it returned. *)
(* The store holds no state of its own: the calls meet in the database,    *)
(* which runs each statement atomically and gives a query the rows that    *)
(* were committed when it started.                                         *)
(***************************************************************************)
Savers   == {"save1", "save2"}
Searcher == "search"
Goroutines == Savers \cup {Searcher}

\* The pattern each saver saves: "1" and "2".
PatternOf(p) == IF p = "save1" THEN <<49>> ELSE <<50>>

\* A save that writes back the table as the call found it when it began, with
\* its row added: a read-modify-write.
ConcurrentInsertOverSeen(store, rows, call) ==
    SaveExperienceOutcomes(store, SubSeq(rows, 1, call.began), call.pattern, call.cause,
                           call.solution, call.vector)

\* The INSERT of a call, run on the table as it is when the statement runs.
ConcurrentInsert(store, rows, call) ==
    SaveExperienceOutcomes(store, rows, call.pattern, call.cause, call.solution, call.vector)

\* SaveExperience up to the statement: signature and encodeVector, no access
\* to the database.
SaveBegin(p) ==
    /\ args[p].pc = "start"
    /\ args' = [args EXCEPT ![p].pc = "exec", ![p].began = Len(issue_history)]
    /\ UNCHANGED <<impl, service, issue_history, project_rules, ret>>

\* The database runs the INSERT.
SaveExec(p) ==
    /\ args[p].pc = "exec"
    /\ \E out \in ConcurrentInsert(impl, issue_history, args[p]) :
          /\ issue_history' = out.rows
          /\ args' = [args EXCEPT ![p].pc = "return", ![p].err = out.err]
    /\ UNCHANGED <<impl, service, project_rules, ret>>

\* SaveExperience returns.
SaveReturn(p) ==
    /\ args[p].pc = "return"
    /\ ret' = [ret EXCEPT ![p] = [op |-> "SaveExperience", err |-> args[p].err]]
    /\ args' = [args EXCEPT ![p].pc = "done"]
    /\ UNCHANGED <<impl, service, issue_history, project_rules>>

\* What the query gives the loop to read: in SQLite the rows with an
\* embedding, in PostgreSQL the ranked and limited result.
QueryOutcomes(store, rows, queryVector, limit) ==
    IF store = SQLiteStore THEN {SearchResult(Slice(EmbeddingNotNull(rows)))}
    ELSE Select(EmbeddingNotNull(rows), queryVector, limit)

\* s.db.QueryContext / s.pool.Query
SearchQuery ==
    /\ args[Searcher].pc = "start"
    /\ \/ /\ args' = [args EXCEPT ![Searcher].pc = "done"]
          /\ ret' = [ret EXCEPT ![Searcher] =
                        [op |-> "SearchSimilarIssues"] @@
                        SearchFailed(IF impl = SQLiteStore THEN "failed to query issues"
                                     ELSE "failed to search similar issues")]
       \/ /\ \E out \in QueryOutcomes(impl, issue_history, args[Searcher].queryVector,
                                      args[Searcher].limit) :
                args' = [args EXCEPT ![Searcher].pc = "scan",
                                     ![Searcher].cursor = out.experiences.elems]
          /\ UNCHANGED ret
    /\ UNCHANGED <<impl, service, issue_history, project_rules>>

\* One row of the SQLite loop: decode, test, score, append.
ScanOne(results, row, queryVector) ==
    IF Eligible(decodeVector(row.embedding), queryVector)
    THEN Append(results,
                Experience(row, cosineSimilarity(queryVector, decodeVector(row.embedding))))
    ELSE results

\* for rows.Next() { rows.Scan(...) ... }
SearchScan ==
    /\ args[Searcher].pc = "scan"
    /\ args[Searcher].cursor # << >>
    /\ args' = [args EXCEPT
                   ![Searcher].cursor = Tail(@),
                   ![Searcher].results =
                       IF impl = SQLiteStore
                       THEN ScanOne(@, Head(args[Searcher].cursor), args[Searcher].queryVector)
                       ELSE Append(@, Head(args[Searcher].cursor))]
    /\ UNCHANGED <<impl, service, issue_history, project_rules, ret>>

\* After the loop: SQLite sorts and cuts, PostgreSQL returns what it read.
Finished(store, results, limit) ==
    IF store = SQLiteStore THEN TopK(results, limit)
    ELSE {SearchResult(IF results = << >> THEN NilSlice ELSE Slice(results))}

SearchFinish ==
    /\ args[Searcher].pc = "scan"
    /\ args[Searcher].cursor = << >>
    /\ \E out \in Finished(impl, args[Searcher].results, args[Searcher].limit) :
          ret' = [ret EXCEPT ![Searcher] = [op |-> "SearchSimilarIssues"] @@ out]
    /\ args' = [args EXCEPT ![Searcher].pc = "done"]
    /\ UNCHANGED <<impl, service, issue_history, project_rules>>

ConcLimits == {1, 3}

SaveCallOf(p) ==
    [fn |-> "SaveExperience", pc |-> "start", pattern |-> PatternOf(p), cause |-> CauseC,
     solution |-> SolutionS, vector |-> TextVec, began |-> 0, err |-> NoError]

SearchCallOf(limit) ==
    [fn |-> "SearchSimilarIssues", pc |-> "start", queryVector |-> TextVec, limit |-> limit,
     cursor |-> << >>, results |-> << >>]

ConcInit ==
    /\ impl \in Stores
    /\ service = NoService
    /\ issue_history \in {<< >>, <<IngestSeed(impl)>>}
    /\ project_rules = << >>
    /\ \E limit \in ConcLimits :
          args = [p \in Goroutines |->
                     IF p = Searcher THEN SearchCallOf(limit) ELSE SaveCallOf(p)]
    /\ ret = [p \in Goroutines |-> NoCall]

ConcNext ==
    \/ \E p \in Savers : SaveBegin(p) \/ SaveExec(p) \/ SaveReturn(p)
    \/ SearchQuery
    \/ SearchScan
    \/ SearchFinish

SpecConc == ConcInit /\ [][ConcNext]_vars

\* The rows a saver has in the table.
RowsOf(p) == {i \in 1..Len(issue_history) : issue_history[i].error_pattern = PatternOf(p)}

\* The rows that were in the table before the calls began.
SeedIndexes == {i \in 1..Len(issue_history) : issue_history[i].error_pattern = PatternP}

ReturnedNil(p) == ret[p].op = "SaveExperience" /\ ret[p].err = NoError

\* C19: for any interleaving of concurrent SaveExperience and
\* SearchSimilarIssues calls on one store, the N saves that return nil result
\* in exactly N new rows, one each (no insert is lost or duplicated, ids are
\* distinct), and a search returns each record completely or not at all: every
\* returned experience is one row of the table, whole, and no row is returned
\* twice.
C19_ConcurrentCalls ==
    /\ \A p \in Savers : Cardinality(RowsOf(p)) <= 1
    /\ \A p \in Savers : ReturnedNil(p) => Cardinality(RowsOf(p)) = 1
    /\ (\A p \in Savers : ReturnedNil(p)) =>
          Len(issue_history) = Cardinality(SeedIndexes) + Cardinality(Savers)
    /\ \A i, j \in 1..Len(issue_history) :
          i # j => issue_history[i].id # issue_history[j].id
    /\ (ret[Searcher].op = "SearchSimilarIssues" /\ ret[Searcher].err = NoError) =>
          LET found == ret[Searcher].experiences.elems
          IN  /\ \A k \in 1..Len(found) :
                    \E i \in 1..Len(issue_history) :
                        /\ found[k].ID = issue_history[i].id
                        /\ found[k].TaskSignature = issue_history[i].task_signature
                        /\ found[k].ErrorPattern = issue_history[i].error_pattern
                        /\ found[k].RootCause = issue_history[i].root_cause
                        /\ found[k].Solution = issue_history[i].solution_summary
              /\ \A k, l \in 1..Len(found) : k # l => found[k].ID # found[l].ID

\* Both saves returned nil and two rows were added; the search, whose limit
\* admits every row, ran between the two inserts and returned one of them.
C19_Witness ==
    /\ \A p \in Savers : ReturnedNil(p)
    /\ Len(issue_history) = 2
    /\ ret[Searcher].op = "SearchSimilarIssues" /\ ret[Searcher].err = NoError
    /\ args[Searcher].limit = 3
    /\ Len0(ret[Searcher].experiences) = 1

(***************************************************************************)
(* The two strategies on one corpus                                        *)
(***************************************************************************)
StrategyVecs ==
    {Slice(<<One32, Zero32>>), Slice(<<NegOne32, Zero32>>), Slice(<<Zero32, Zero32>>)}
StrategyLimits == {1, MaxRows}

StrategyInit ==
    /\ impl \in Stores
    /\ service = NoService
    /\ issue_history = << >>
    /\ project_rules = << >>
    /\ args = NoCall
    /\ ret = NoCall

StrategyNext ==
    \/ \E vector \in StrategyVecs :
          /\ Len(issue_history) < MaxRows
          /\ SaveExperience(PatternP, CauseC, SolutionS, vector)
    \/ \E limit \in StrategyLimits : SearchSimilarIssues(TextVec, limit)

SpecStrategies == StrategyInit /\ [][StrategyNext]_vars

OtherStore(store) == IF store = SQLiteStore THEN PostgresStoreRunes ELSE SQLiteStore

\* The vector a row of a store holds.
VectorOf(store, row) ==
    IF store = SQLiteStore THEN decodeVector(row.embedding) ELSE row.embedding

\* The same records held by the other store.
CorpusIn(store, from, rows) ==
    [i \in 1..Len(rows) |->
        [rows[i] EXCEPT !.embedding = EmbeddingColumn(store, VectorOf(from, rows[i]))]]

\* Every embedding has the query's dimension and the similarities, as the
\* similarity engine defines them, are all distinct.
DistinctSimilarities(store, rows, queryVector) ==
    LET sim(i) == cosineSimilarity(queryVector, VectorOf(store, rows[i]))
    IN  /\ \A i \in 1..Len(rows) :
              /\ ~IsNil(rows[i].embedding)
              /\ Len0(VectorOf(store, rows[i])) = Len0(queryVector)
        /\ \A i, j \in 1..Len(rows) :
              i # j => F32Gt(sim(i), sim(j)) \/ F32Gt(sim(j), sim(i))

\* C20: on a corpus in which every embedding has the query's dimension and all
\* similarities are distinct, the list a search returns from one store (the
\* records, their order, their number and each similarity value) is the list
\* the other store returns for the same records, query and limit.
C20_Interchangeable ==
    (/\ ret.op = "SearchSimilarIssues"
     /\ ret.err = NoError
     /\ ~ret.panic
     /\ DistinctSimilarities(impl, issue_history, args.queryVector))
    => \E out \in SearchOutcomes(OtherStore(impl),
                                 CorpusIn(OtherStore(impl), impl, issue_history),
                                 args.queryVector, args.limit) :
          /\ out.err = NoError
          /\ ~out.panic
          /\ out.experiences.elems = ret.experiences.elems

(***************************************************************************)
(* Tools: paths (path/filepath on a Unix system)                           *)
(***************************************************************************)
Separator == <<47>>     \* "/"
DotName   == <<46>>     \* "."
DotDot    == <<46, 46>> \* ".."

\* filepath.IsAbs: strings.HasPrefix(path, "/")
filepathIsAbs(path) == Len(path) > 0 /\ <<path[1]>> = Separator

\* The elements of a path between its separators; cur is the element being read.
RECURSIVE Elements(_, _)
Elements(path, cur) ==
    IF path = << >> THEN <<cur>>
    ELSE IF <<Head(path)>> = Separator THEN <<cur>> \o Elements(Tail(path), << >>)
    ELSE Elements(Tail(path), Append(cur, Head(path)))

\* filepath.Clean's pass over the elements: empty and "." elements are
\* dropped, ".." removes the element before it, is dropped at the root and is
\* kept at the start of a relative path.
RECURSIVE CleanElements(_, _, _)
CleanElements(elems, out, rooted) ==
    IF elems = << >> THEN out
    ELSE LET e    == Head(elems)
             rest == Tail(elems)
         IN  IF e = << >> \/ e = DotName THEN CleanElements(rest, out, rooted)
             ELSE IF e # DotDot THEN CleanElements(rest, Append(out, e), rooted)
             ELSE IF out # << >> /\ out[Len(out)] # DotDot
                  THEN CleanElements(rest, SubSeq(out, 1, Len(out) - 1), rooted)
             ELSE IF rooted THEN CleanElements(rest, out, rooted)
             ELSE CleanElements(rest, Append(out, e), rooted)

\* filepath.Clean
filepathClean(path) ==
    IF path = << >> THEN DotName
    ELSE LET rooted == filepathIsAbs(path)
             joined == Join(CleanElements(Elements(path, << >>), << >>, rooted), Separator)
         IN  IF rooted THEN Separator \o joined
             ELSE IF joined = << >> THEN DotName ELSE joined

\* filepath.Join: the non-empty elements joined by separators, cleaned.
filepathJoin(elems) ==
    LET named == SelectSeq(elems, LAMBDA e : e # << >>)
    IN  IF named = << >> THEN << >> ELSE filepathClean(Join(named, Separator))

\* os.Getwd: the process's current directory; it fails when the directory
\* has been removed.
Cwd == <<47, 119>>      \* "/w"
Getwd == {[dir |-> Cwd, err |-> NoError], [dir |-> << >>, err |-> "getwd failed"]}

\* filepath.Abs, with wd what os.Getwd returns.
filepathAbs(path, wd) ==
    IF filepathIsAbs(path) THEN [path |-> filepathClean(path), err |-> NoError]
    ELSE IF wd.err # NoError THEN [path |-> << >>, err |-> wd.err]
    ELSE [path |-> filepathJoin(<<wd.dir, path>>), err |-> NoError]

\* strings.HasPrefix
HasPrefix(str, prefix) ==
    Len(str) >= Len(prefix) /\ SubSeq(str, 1, Len(prefix)) = prefix

(***************************************************************************)
(* Tools: the file system the tools read                                   *)
(***************************************************************************)
maxSize == 10       \* maxSize := 10000 in the code; the cut is the same at any size

Jie       == <<231, 149, 140>>      \* one character of three bytes
TextLong  == Jie \o Jie \o Jie \o Jie
TextShort == <<104, 105>>           \* "hi"
TextAscii == Letters(maxSize + 2)
Truncated == <<10, 46, 46, 46, 32, 40, 116, 114, 117, 110, 99, 97, 116, 101, 100, 41>>

File(content) == [kind |-> "file", content |-> content]
Dir(names)    == [kind |-> "dir", names |-> names]

\* The working directory /w with three files, the directory /w2 beside it
\* and a file /2 outside both.
FileSystem ==
    (<<47>> :> Dir(<<<<50>>, <<119>>, <<119, 50>>>>))
    @@ (<<47, 50>> :> File(TextShort))
    @@ (<<47, 119>> :> Dir(<<<<46, 50>>, <<50>>, <<119>>>>))
    @@ (<<47, 119, 47, 119>> :> File(TextLong))
    @@ (<<47, 119, 47, 50>> :> File(TextShort))
    @@ (<<47, 119, 47, 46, 50>> :> File(TextAscii))
    @@ (<<47, 119, 50>> :> Dir(<<<<119>>>>))
    @@ (<<47, 119, 50, 47, 119>> :> File(TextShort))

\* os.ReadFile
ReadFile(name) ==
    {[content |-> << >>, err |-> "read failed"]}
        \cup (IF name \in DOMAIN FileSystem /\ FileSystem[name].kind = "file"
              THEN {[content |-> FileSystem[name].content, err |-> NoError]}
              ELSE {})

\* os.ReadDir and the item built from each entry.
Item(dir, name) ==
    LET entry == FileSystem[filepathJoin(<<dir, name>>)]
    IN  IF entry.kind = "dir" THEN [name |-> name, isDir |-> TRUE]
        ELSE [name |-> name, isDir |-> FALSE, size |-> Len(entry.content)]

ReadDir(name) ==
    {[items |-> NilSlice, err |-> "read failed"]}
        \cup (IF name \in DOMAIN FileSystem /\ FileSystem[name].kind = "dir"
              THEN {[items |-> IF FileSystem[name].names = << >> THEN NilSlice
                               ELSE Slice([i \in 1..Len(FileSystem[name].names) |->
                                              Item(name, FileSystem[name].names[i])]),
                     err |-> NoError]}
              ELSE {})

(***************************************************************************)
(* Tools: Handler                                                          *)
(***************************************************************************)
ToolSearchLimit == 3

\* &Handler{store, embedder, workDir}; the store is impl.
Handler == "Handler"
NewHandler(workDir) == [kind |-> Handler, embedder |-> TRUE, workDir |-> workDir]

\* The values of args map[string]interface{}.
StringArg(val) == [type |-> "string", val |-> val]
NumberArg      == [type |-> "float64", val |-> << >>]

\* v, _ := args[key].(string): "" when the key is missing or holds no string.
ArgString(toolArgs, key) ==
    IF key \in DOMAIN toolArgs /\ toolArgs[key].type = "string" THEN toolArgs[key].val ELSE << >>

\* ToolResult and the values of its Data.
NoData               == [type |-> "nil"]
StringData(val)      == [type |-> "string", val |-> val]
ListData(kind, list) == [type |-> kind, items |-> list]
MessageData(message) == [type |-> "message", val |-> message]

ToolResult(success, data, error) == [Success |-> success, Data |-> data, Error |-> error]
Failure(error) == ToolResult(FALSE, NoData, error)

\* How a handler ends: its result, the table, the calls it made to the
\* embedder and the store, and the paths it gave to os.ReadFile and os.ReadDir.
Ended(result, rows, calls, reads) ==
    [result |-> result, rows |-> rows, calls |-> calls, reads |-> reads, panic |-> FALSE]
Panicked(rows, calls, reads) ==
    [result |-> Failure(""), rows |-> rows, calls |-> calls, reads |-> reads, panic |-> TRUE]

\* fmt.Sprintf("%.2f%%", exp.SimilarityScore*100): the product that is printed.
Hundred32 == F32(0, 133, 4718592)
IssueItem(exp) ==
    [id |-> exp.ID, pattern |-> exp.ErrorPattern, cause |-> exp.RootCause,
     solution |-> exp.Solution, similarity |-> F32Mul(exp.SimilarityScore, Hundred32)]

handleSearchPastIssues(store, rows, toolArgs) ==
    LET description == ArgString(toolArgs, "error_description")
        Searched3(e) ==
            {LET calls == <<EmbedCall(description, e),
                            SearchCall(e.vector, ToolSearchLimit, out.err)>>
             IN  IF out.panic THEN Panicked(rows, calls, << >>)
                 ELSE IF out.err # NoError
                 THEN Ended(Failure("failed to search issues"), rows, calls, << >>)
                 ELSE IF Len0(out.experiences) = 0
                 THEN Ended(ToolResult(TRUE, MessageData("no past issue found"), ""),
                            rows, calls, << >>)
                 ELSE Ended(ToolResult(TRUE,
                                ListData("issues",
                                         [i \in 1..Len0(out.experiences) |->
                                             IssueItem(out.experiences.elems[i])]), ""),
                            rows, calls, << >>) :
                out \in SearchOutcomes(store, rows, e.vector, ToolSearchLimit)}
    IN  IF description = << >>
        THEN {Ended(Failure("error_description is required"), rows, << >>, << >>)}
        ELSE UNION {IF e.err # NoError
                    THEN {Ended(Failure("failed to generate embedding"), rows,
                                <<EmbedCall(description, e)>>, << >>)}
                    ELSE Searched3(e) : e \in Embed(description)}

\* contentStr[:maxSize] + "\n... (truncated)"
LimitContent(contentStr) ==
    IF Len(contentStr) > maxSize THEN SubSeq(contentStr, 1, maxSize) \o Truncated
    ELSE contentStr

\* The security check: strings.HasPrefix(absPath, absWorkDir).
WithinWorkDir(absPath, absWorkDir) == HasPrefix(absPath, absWorkDir)

\* The path a tool is asked for, resolved: joined to the working directory
\* when it is relative, then made absolute.
Resolve(workDir, path, wd) ==
    filepathAbs(IF ~filepathIsAbs(path) THEN filepathJoin(<<workDir, path>>) ELSE path, wd)

handleReadFile(workDir, rows, toolArgs) ==
    LET filePath == ArgString(toolArgs, "filepath")
        Read(absPath) ==
            {IF f.err # NoError
             THEN Ended(Failure("failed to read file"), rows, << >>, <<absPath>>)
             ELSE Ended(ToolResult(TRUE, StringData(LimitContent(f.content)), ""),
                        rows, << >>, <<absPath>>) : f \in ReadFile(absPath)}
        Checked(wd) ==
            LET abs        == Resolve(workDir, filePath, wd)
                absWorkDir == filepathAbs(workDir, wd).path
            IN  IF abs.err # NoError
                THEN {Ended(Failure("invalid path"), rows, << >>, << >>)}
                ELSE IF ~WithinWorkDir(abs.path, absWorkDir)
                THEN {Ended(Failure("access denied: path is outside working directory"),
                            rows, << >>, << >>)}
                ELSE Read(abs.path)
    IN  IF filePath = << >>
        THEN {Ended(Failure("filepath is required"), rows, << >>, << >>)}
        ELSE UNION {Checked(wd) : wd \in Getwd}

handleListDirectory(workDir, rows, toolArgs) ==
    LET asked   == ArgString(toolArgs, "path")
        dirPath == IF asked = << >> THEN workDir ELSE asked
        List(absPath) ==
            {IF d.err # NoError
             THEN Ended(Failure("failed to read directory"), rows, << >>, <<absPath>>)
             ELSE Ended(ToolResult(TRUE, ListData("entries", d.items.elems), ""),
                        rows, << >>, <<absPath>>) : d \in ReadDir(absPath)}
        Checked(wd) ==
            LET abs        == Resolve(workDir, dirPath, wd)
                absWorkDir == filepathAbs(workDir, wd).path
            IN  IF abs.err # NoError
                THEN {Ended(Failure("invalid path"), rows, << >>, << >>)}
                ELSE IF ~WithinWorkDir(abs.path, absWorkDir)
                THEN {Ended(Failure("access denied: path is outside working directory"),
                            rows, << >>, << >>)}
                ELSE List(abs.path)
    IN  UNION {Checked(wd) : wd \in Getwd}

\* The embedding and the save of handleSaveExperience.
EmbedAndSave(store, rows, pattern, cause, solution) ==
    UNION {IF e.err # NoError
           THEN {Ended(Failure("failed to generate embedding"), rows,
                       <<EmbedCall(pattern, e)>>, << >>)}
           ELSE {LET calls == <<EmbedCall(pattern, e),
                               SaveCall(pattern, cause, solution, e.vector, out.err)>>
                 IN  IF out.err # NoError
                     THEN Ended(Failure("failed to save experience"), out.rows, calls, << >>)
                     ELSE Ended(ToolResult(TRUE, MessageData("experience saved"), ""),
                                out.rows, calls, << >>) :
                    out \in SaveExperienceOutcomes(store, rows, pattern, cause, solution,
                                                   e.vector)} :
              e \in Embed(pattern)}

\* A save that asks only for the error pattern.
handleSaveExperiencePatternOnly(store, rows, toolArgs) ==
    IF ArgString(toolArgs, "error_pattern") = << >>
    THEN {Ended(Failure("error_pattern, root_cause, and solution are all required"),
                rows, << >>, << >>)}
    ELSE EmbedAndSave(store, rows, ArgString(toolArgs, "error_pattern"),
                      ArgString(toolArgs, "root_cause"), ArgString(toolArgs, "solution"))

handleSaveExperience(store, rows, toolArgs) ==
    LET pattern  == ArgString(toolArgs, "error_pattern")
        cause    == ArgString(toolArgs, "root_cause")
        solution == ArgString(toolArgs, "solution")
    IN  IF pattern = << >> \/ cause = << >> \/ solution = << >>
        THEN {Ended(Failure("error_pattern, root_cause, and solution are all required"),
                    rows, << >>, << >>)}
        ELSE EmbedAndSave(store, rows, pattern, cause, solution)

\* json.Marshal(result): the object's keys ("data" and "error" are left out
\* when empty) and its strings, in which every byte that is no part of a
\* valid UTF-8 sequence is written as U+FFFD.
JSONString(str) == String(Runes(str))

JSONData(data) ==
    IF data.type = "string" THEN [data EXCEPT !.val = JSONString(@)]
    ELSE IF data.type = "issues"
    THEN [data EXCEPT !.items = [i \in 1..Len(@) |->
                                    [@[i] EXCEPT !.pattern  = JSONString(@),
                                                 !.cause    = JSONString(@),
                                                 !.solution = JSONString(@)]]]
    ELSE IF data.type = "entries"
    THEN [data EXCEPT !.items = [i \in 1..Len(@) |-> [@[i] EXCEPT !.name = JSONString(@)]]]
    ELSE data

Marshal(result) ==
    [key \in {"success"}
              \cup (IF result.Data # NoData THEN {"data"} ELSE {})
              \cup (IF result.Error # "" THEN {"error"} ELSE {}) |->
        IF key = "success" THEN result.Success
        ELSE IF key = "data" THEN JSONData(result.Data)
        ELSE result.Error]

ToolNames == {"search_past_issues", "read_file_content", "list_directory", "save_experience"}

\* The switch of HandleToolCall.
Dispatch(h, store, rows, name, toolArgs) ==
    IF name = "search_past_issues" THEN handleSearchPastIssues(store, rows, toolArgs)
    ELSE IF name = "read_file_content" THEN handleReadFile(h.workDir, rows, toolArgs)
    ELSE IF name = "list_directory" THEN handleListDirectory(h.workDir, rows, toolArgs)
    ELSE IF name = "save_experience" THEN handleSaveExperience(store, rows, toolArgs)
    ELSE {Ended(Failure("unknown tool"), rows, << >>, << >>)}

\* What HandleToolCall returns (the JSON text and the error) and what it did.
ToolReturned(end, json, err) ==
    [json |-> json, err |-> err, result |-> end.result, rows |-> end.rows,
     calls |-> end.calls, reads |-> end.reads, panic |-> end.panic]

\* A HandleToolCall that returns a failed result as an error.
HandleToolCallReturningErrors(h, store, rows, name, toolArgs) ==
    {IF end.panic \/ ~end.result.Success THEN ToolReturned(end, << >>, end.result.Error)
     ELSE ToolReturned(end, Marshal(end.result), NoError) :
        end \in Dispatch(h, store, rows, name, toolArgs)}

\* Handler.HandleToolCall
HandleToolCallOutcomes(h, store, rows, name, toolArgs) ==
    {IF end.panic THEN ToolReturned(end, << >>, NoError)
     ELSE ToolReturned(end, Marshal(end.result), NoError) :
        end \in Dispatch(h, store, rows, name, toolArgs)}

HandleToolCall(name, toolArgs) ==
    /\ \E out \in HandleToolCallOutcomes(service, impl, issue_history, name, toolArgs) :
          /\ issue_history' = out.rows
          /\ ret' = [op |-> "HandleToolCall", json |-> out.json, err |-> out.err,
                     result |-> out.result, calls |-> out.calls, reads |-> out.reads,
                     panic |-> out.panic]
    /\ args' = [fn |-> "HandleToolCall", name |-> name, args |-> toolArgs]
    /\ UNCHANGED <<impl, service, project_rules>>

(***************************************************************************)
(* The tools called with every name and argument map                       *)
(***************************************************************************)
MaxPathLen  == 5        \* most bytes of a requested path

PathBytes == {47, 46, 119, 50}          \* "/", ".", "w", "2"
Paths     == SeqsUpTo(PathBytes, MaxPathLen)
WorkDirs  == {Cwd, DotName}             \* "/w" and ".", the current directory

\* Every map over some of the keys, each key with one of its values.
ArgMaps(keys, values) == UNION {[ks -> values] : ks \in SUBSET keys}

ToolCalls ==
    {<<name, a>> : name \in {"read_file_content"},
                   a \in ArgMaps({"filepath"}, {NumberArg} \cup {StringArg(p) : p \in Paths})}
    \cup {<<name, a>> : name \in {"list_directory"},
                        a \in ArgMaps({"path"}, {NumberArg} \cup {StringArg(p) : p \in Paths})}
    \cup {<<name, a>> : name \in {"search_past_issues"},
                        a \in ArgMaps({"error_description"},
                                      {NumberArg, StringArg(<< >>), StringArg(QueryQ)})}
    \cup {<<name, a>> : name \in {"save_experience"},
                        a \in [{"error_pattern"} -> {StringArg(<< >>), StringArg(PatternP)}]
                              \cup [{"error_pattern", "root_cause", "solution"} ->
                                       {NumberArg, StringArg(<< >>), StringArg(PatternP)}]}
    \cup {<<name, a>> : name \in {"list_files", ""},
                        a \in ArgMaps({"path"}, {StringArg(Cwd)})}

\* One call of a tool, drawn with the handler and the table it runs on.
ToolsInit ==
    /\ impl \in Stores
    /\ \E workDir \in WorkDirs : service = NewHandler(workDir)
    /\ issue_history \in {<< >>, <<IngestSeed(impl)>>}
    /\ project_rules = << >>
    /\ args \in {[fn |-> "call", name |-> call[1], args |-> call[2]] : call \in ToolCalls}
    /\ ret = NoCall

ToolsNext ==
    /\ args.fn = "call"
    /\ HandleToolCall(args.name, args.args)

SpecTools == ToolsInit /\ [][ToolsNext]_vars

(***************************************************************************)
(* Properties of the tools                                                 *)
(***************************************************************************)
Called(name) == ret.op = "HandleToolCall" /\ args.name = name

\* The directory itself or a path below it.
Inside(path, dir) ==
    \/ path = dir
    \/ dir = Separator /\ HasPrefix(path, dir)
    \/ HasPrefix(path, dir \o Separator)

\* The working directory and the requested path, resolved in the current
\* directory.
AbsWorkDir == filepathAbs(service.workDir, [dir |-> Cwd, err |-> NoError]).path

Requested ==
    IF args.name = "read_file_content" THEN ArgString(args.args, "filepath")
    ELSE IF ArgString(args.args, "path") = << >> THEN service.workDir
    ELSE ArgString(args.args, "path")

ResolvedPath == Resolve(service.workDir, Requested, [dir |-> Cwd, err |-> NoError]).path

\* C21: read_file_content and list_directory give os.ReadFile and os.ReadDir
\* only paths inside the working directory (the directory itself or a path
\* below it); a request whose resolved path lies outside it, a directory beside
\* it whose name starts with the working directory's name included, fails with
\* 'access denied' and nothing is read.
C21_PathConfinement ==
    (Called("read_file_content") \/ Called("list_directory")) =>
        /\ \A i \in 1..Len(ret.reads) : Inside(ret.reads[i], AbsWorkDir)
        /\ (Requested # << >> /\ ~Inside(ResolvedPath, AbsWorkDir)) =>
              /\ ~ret.result.Success
              /\ ret.reads = << >>
              /\ ret.result.Error \in {"access denied: path is outside working directory",
                                       "invalid path"}

\* The longest prefix of str that has at most n bytes and ends on a
\* code-point boundary.
BoundaryPrefix(str, n) ==
    LET runes == Runes(str)
        fits  == {k \in 0..Len(runes) : Len(String(SubSeq(runes, 1, k))) <= n}
        most  == CHOOSE k \in fits : \A j \in fits : j <= k
    IN  String(SubSeq(runes, 1, most))

\* The content of the file a successful read_file_content read.
FileRead == FileSystem[ret.reads[1]].content

\* C25: the content read_file_content returns is the file's content when it
\* has at most maxSize bytes; a longer content is cut to its longest prefix of
\* at most maxSize bytes that ends on a code-point boundary (followed by the
\* truncation mark), so what is returned of a valid UTF-8 file is valid UTF-8
\* and no character is cut.
C25_ContentTruncation ==
    (Called("read_file_content") /\ ret.result.Success) =>
        LET data == ret.result.Data.val
        IN  /\ Len(FileRead) <= maxSize => data = FileRead
            /\ Len(FileRead) > maxSize =>
                  data = BoundaryPrefix(FileRead, maxSize) \o Truncated
            /\ ValidString(FileRead) => ValidString(data)

\* The arguments of a save_experience call, as the handler reads them.
SaveArg(key) == ArgString(args'.args, key)

SaveToolCalled == args'.fn = "HandleToolCall" /\ args'.name = "save_experience"

\* A call with an empty or missing argument fails and calls nothing; any other
\* call calls Embed(error_pattern) once and, only if that succeeded,
\* SaveExperience once with the three arguments and that embedding.
SaveToolOrder ==
    IF SaveArg("error_pattern") = << >> \/ SaveArg("root_cause") = << >>
          \/ SaveArg("solution") = << >>
    THEN /\ ~ret'.result.Success
         /\ ret'.calls = << >>
         /\ issue_history' = issue_history
    ELSE /\ Len(ret'.calls) \in {1, 2}
         /\ ret'.calls[1].fn = "Embed"
         /\ ret'.calls[1].text = SaveArg("error_pattern")
         /\ Len(ret'.calls) = 2 <=> ret'.calls[1].err = NoError
         /\ Len(ret'.calls) = 2 =>
               ret'.calls[2] = SaveCall(SaveArg("error_pattern"), SaveArg("root_cause"),
                                        SaveArg("solution"), ret'.calls[1].vector,
                                        ret'.calls[2].err)
         /\ ret'.result.Success <=> \A i \in 1..Len(ret'.calls) : ret'.calls[i].err = NoError
         /\ ret'.result.Success => Len(issue_history') = Len(issue_history) + 1

\* C26 as stated: save_experience fails and calls neither Embed nor
\* SaveExperience when an argument is empty or missing; otherwise it calls
\* Embed(error_pattern) once and, only if that succeeds, SaveExperience once
\* with the three arguments and that embedding; an Embed or save failure
\* yields Success=false and adds no record.
C26_SaveToolStrict ==
    [][SaveToolCalled =>
          /\ SaveToolOrder
          /\ ~ret'.result.Success => issue_history' = issue_history]_vars

\* C26 as amended: the same, but only a call that did not reach SaveExperience
\* is sure to add no record; after a failed SaveExperience the table holds no
\* record or the one record of that call.
C26_SaveToolOrdered ==
    [][SaveToolCalled =>
          /\ SaveToolOrder
          /\ (~ret'.result.Success /\ Len(ret'.calls) < 2) => issue_history' = issue_history
          /\ ~ret'.result.Success =>
                \/ issue_history' = issue_history
                \/ /\ Len(issue_history') = Len(issue_history) + 1
                   /\ SubSeq(issue_history', 1, Len(issue_history)) = issue_history
                   /\ issue_history'[Len(issue_history')].error_pattern
                         = ArgString(args'.args, "error_pattern")]_vars

\* save_experience was called with its three arguments, Embed and
\* SaveExperience were called in that order and the call succeeded.
C26_Witness ==
    /\ Called("save_experience")
    /\ ret.result.Success
    /\ Len(ret.calls) = 2
    /\ ret.calls[1].fn = "Embed" /\ ret.calls[2].fn = "SaveExperience"
    /\ Len(issue_history) >= 1

ReturnedAt(i, row) ==
    /\ ret.experiences.elems[i].ID = row.id
    /\ ret.experiences.elems[i].ErrorPattern = row.error_pattern
    /\ ret.experiences.elems[i].RootCause = row.root_cause
    /\ ret.experiences.elems[i].Solution = row.solution_summary

\* C22: every record saved with a non-empty vector of the query's length is
\* in the list a later SQLite search returns when the limit admits every
\* eligible record, with its pattern, cause and solution and with the score
\* cosine(q, v); a record whose vector equals the query is ranked no lower
\* than any record of smaller similarity: each record returned before it has
\* a similarity at least as high.
C22_ReadYourWrites ==
    Searched(SQLiteStore) =>
        LET exps == ret.experiences.elems
            elig == ComparableRows(issue_history, args.queryVector)
        IN  /\ args.limit >= Len(elig) =>
                  \A j \in 1..Len(elig) :
                      \E i \in 1..Len(exps) :
                          /\ ReturnedAt(i, elig[j])
                          /\ exps[i].SimilarityScore = RowScore(elig[j], args.queryVector)
            /\ \A i \in 1..Len(exps) :
                  decodeVector(RowByID(exps[i].ID).embedding) = args.queryVector =>
                      \A k \in 1..(i - 1) :
                          F32Ge(exps[k].SimilarityScore, exps[i].SimilarityScore)

(***************************************************************************)
(* Service.Search over tables of records with and without texts            *)
(***************************************************************************)
MaxRecallRows == 2      \* most rows of issue_history in these runs

\* A record as SaveExperience(pattern, cause, solution, TextVec) leaves it.
RecallRow(store, id, texts) ==
    [id               |-> id,
     task_signature   |-> texts[1],
     error_pattern    |-> texts[1],
     root_cause       |-> texts[2],
     solution_summary |-> texts[3],
     embedding        |-> EmbeddingColumn(store, TextVec),
     occurred_at      |-> id]

RecallTexts == {<< >>, PatternP} \X {<< >>, CauseC} \X {<< >>, SolutionS}

RecallTables(store) ==
    UNION {{[i \in 1..n |-> RecallRow(store, i, t[i])] : t \in [1..n -> RecallTexts]} :
              n \in 0..MaxRecallRows}

RecallInit ==
    /\ \E c \in Services : impl = c[1] /\ service = c[2]
    /\ issue_history \in RecallTables(impl)
    /\ project_rules = << >>
    /\ args = NoCall
    /\ ret = NoCall

RecallNext == Search(QueryQ)

SpecRecall == RecallInit /\ [][RecallNext]_vars

\* A Search of the service that reached its embedder.
SearchRan == ret.op = "Search" /\ service.embedder

\* C23: Search calls Embed on the query first and queries the store only
\* after Embed succeeded, with the vector Embed returned.  A failure of Embed
\* ends the Search with the error "failed to generate query embedding", a nil
\* response and no store query; a failure of the store ends it with the error
\* "failed to search similar issues" and a nil response.  A Search that
\* returns no error returns a response and had neither failure.
C23_SearchErrorOrdering ==
    SearchRan =>
        /\ Len(ret.calls) \in {1, 2}
        /\ ret.calls[1].fn = "Embed"
        /\ ret.calls[1].text = args.query
        /\ IF ret.calls[1].err # NoError
           THEN /\ Len(ret.calls) = 1
                /\ ret.err = "failed to generate query embedding"
                /\ ret.resp.nil
           ELSE /\ Len(ret.calls) = 2
                /\ ret.calls[2].fn = "SearchSimilarIssues"
                /\ ret.calls[2].queryVector = ret.calls[1].vector
                /\ IF ret.calls[2].err # NoError
                   THEN ret.err = "failed to search similar issues" /\ ret.resp.nil
                   ELSE ret.err = NoError /\ ~ret.resp.nil

\* A Search over a table with records whose store query failed.
C23_Witness ==
    /\ SearchRan
    /\ Len(issue_history) > 0
    /\ Len(ret.calls) = 2
    /\ ret.calls[2].err # NoError
    /\ ret.resp.nil

HasRowText(row) ==
    row.error_pattern # << >> \/ row.root_cause # << >> \/ row.solution_summary # << >>

HasText(exp) == exp.ErrorPattern # << >> \/ exp.RootCause # << >> \/ exp.Solution # << >>

\* The index in experiences of the i-th experience that has a text.
KeptIndex(experiences, i) ==
    CHOOSE j \in 1..Len(experiences) :
        /\ HasText(experiences[j])
        /\ Cardinality({k \in 1..j : HasText(experiences[k])}) = i

\* C24: a Search that succeeds asked the store for SearchLimit (10)
\* experiences, and its memories are, in the store's order, one entry per
\* returned experience with a non-empty ErrorPattern, RootCause or Solution,
\* with author "system", the experience's OccurredAt as timestamp and the
\* content built from its texts; an experience whose three texts are empty
\* has no entry, and there are never more than SearchLimit entries.
C24_ResultShaping ==
    (SearchRan /\ ret.err = NoError) =>
        /\ ret.calls[2].limit = SearchLimit
        /\ Len(ret.resp.Memories.elems) <= SearchLimit
        /\ \E out \in SearchOutcomes(impl, issue_history, ret.calls[1].vector, SearchLimit) :
              /\ out.err = NoError
              /\ LET exps == out.experiences.elems
                     mem  == ret.resp.Memories.elems
                 IN  /\ Len(mem) = Cardinality({j \in 1..Len(exps) : HasText(exps[j])})
                     /\ \A i \in 1..Len(mem) :
                           LET exp == exps[KeptIndex(exps, i)]
                           IN  /\ mem[i].Author = "system"
                               /\ mem[i].Timestamp = exp.OccurredAt
                               /\ mem[i].Content = Content(<<TextPart(EntryContent(exp))>>)

\* A Search over a record without texts followed by a record with texts: one
\* entry, that of the second record.
C24_Witness ==
    /\ SearchRan
    /\ ret.err = NoError
    /\ Len(issue_history) = 2
    /\ ~HasRowText(issue_history[1])
    /\ HasRowText(issue_history[2])
    /\ Len(ret.resp.Memories.elems) = 1
    /\ ret.resp.Memories.elems[1].Timestamp = issue_history[2].occurred_at

(***************************************************************************)
(* SQLiteStore with absent, empty and zero vectors and any limit           *)
(***************************************************************************)
MaxSQLiteRows == 2      \* most rows issue_history grows to in these runs

ZeroVec == Slice(<<Zero32, Zero32>>)

SQLiteVecs    == {NilSlice, Slice(<< >>), ZeroVec, TextVec}
SQLiteQueries == {NilSlice, Slice(<< >>), TextVec}
SQLiteLimits  == {-1, 0, 1, MaxSQLiteRows}

SQLiteInit ==
    /\ impl = SQLiteStore
    /\ service = NoService
    /\ issue_history = << >>
    /\ project_rules = << >>
    /\ args = NoCall
    /\ ret = NoCall

SQLiteNext ==
    \/ \E vector \in SQLiteVecs :
          /\ Len(issue_history) < MaxSQLiteRows
          /\ SaveExperience(PatternP, CauseC, SolutionS, vector)
    \/ \E queryVector \in SQLiteQueries, limit \in SQLiteLimits :
          SearchSimilarIssues(queryVector, limit)

SpecSQLite == SQLiteInit /\ [][SQLiteNext]_vars

\* C28: SQLiteStore.SearchSimilarIssues returns normally for every limit and
\* every table: it never panics, and with a limit of 0 or less a call that
\* returns no error returns an empty list.
C28_TotalInLimit ==
    (ret.op = "SearchSimilarIssues" /\ impl = SQLiteStore) =>
        /\ ~ret.panic
        /\ (args.limit <= 0 /\ ret.err = NoError) => Len0(ret.experiences) = 0

\* The rows of issue_history saved with a nil or an empty vector.
SavedWithoutVector(row) ==
    row.embedding \in {EmbeddingColumn(SQLiteStore, NilSlice),
                       EmbeddingColumn(SQLiteStore, Slice(<< >>))}

\* C30: in SQLiteStore a SaveExperience with a nil or empty vector that
\* returns nil has persisted its record; no search, whatever its query vector
\* (an empty one included), returns a record saved with a nil or empty
\* vector; and a record saved with an all-zero vector of the query's
\* dimension is eligible: a search whose limit admits every eligible record
\* returns it, with SimilarityScore 0.
C30_VectorlessAndZero ==
    /\ (/\ ret.op = "SaveExperience"
        /\ impl = SQLiteStore
        /\ ret.err = NoError
        /\ Len0(args.vector) = 0)
       => /\ Len(issue_history) > 0
          /\ LET row == issue_history[Len(issue_history)]
             IN  /\ row.error_pattern = args.pattern
                 /\ row.root_cause = args.cause
                 /\ row.solution_summary = args.solution
                 /\ SavedWithoutVector(row)
    /\ Searched(SQLiteStore) =>
          /\ \A id \in ReturnedIDs : ~SavedWithoutVector(RowByID(id))
          /\ \A i \in 1..Len(issue_history) :
                (/\ issue_history[i].embedding = EmbeddingColumn(SQLiteStore, ZeroVec)
                 /\ Len0(args.queryVector) = Len0(ZeroVec)
                 /\ args.limit >= Len(issue_history))
                => \E k \in 1..Len0(ret.experiences) :
                      /\ ret.experiences.elems[k].ID = issue_history[i].id
                      /\ ret.experiences.elems[k].SimilarityScore = Zero32

\* A search that returned the record saved with the zero vector, with score
\* 0, and not the record saved with a nil vector.
C30_Witness ==
    /\ Searched(SQLiteStore)
    /\ Len(issue_history) = 2
    /\ issue_history[1].embedding = EmbeddingColumn(SQLiteStore, NilSlice)
    /\ issue_history[2].embedding = EmbeddingColumn(SQLiteStore, ZeroVec)
    /\ Len0(ret.experiences) = 1
    /\ ret.experiences.elems[1].ID = issue_history[2].id
    /\ ret.experiences.elems[1].SimilarityScore = Zero32

\* A search with an empty query vector over a record saved with an empty
\* vector: nothing is returned.
C30_EmptyQueryReached ==
    /\ Searched(SQLiteStore)
    /\ \E i \in 1..Len(issue_history) :
          issue_history[i].embedding = EmbeddingColumn(SQLiteStore, Slice(<< >>))
    /\ args.queryVector = Slice(<< >>)
    /\ args.limit > 0

(***************************************************************************)
(* Reads and saves interleaved over both tables                            *)
(***************************************************************************)
MaxReadRules == 2       \* most rows of project_rules in these runs
MaxReadRows  == 1       \* most rows issue_history grows to in these runs

ReadsInit ==
    /\ impl \in Stores
    /\ service = NoService
    /\ issue_history = << >>
    /\ project_rules \in UNION {RuleTables(n) : n \in 0..MaxReadRules}
    /\ args = NoCall
    /\ ret = NoCall

ReadsNext ==
    \/ GetProjectRules
    \/ \E limit \in {1, MaxReadRows + 1} : SearchSimilarIssues(TextVec, limit)
    \/ /\ Len(issue_history) < MaxReadRows
       /\ SaveExperience(PatternP, CauseC, SolutionS, TextVec)

SpecReads == ReadsInit /\ [][ReadsNext]_vars

\* C29: GetProjectRules and SearchSimilarIssues leave project_rules and
\* issue_history as they were, whether they return an error or not;
\* SaveExperience leaves project_rules as it was; and a GetProjectRules that
\* succeeds right after one that succeeded returns the same list.
C29_ReadsHaveNoEffect ==
    [][/\ args'.fn \in {"GetProjectRules", "SearchSimilarIssues"}
             => project_rules' = project_rules /\ issue_history' = issue_history
       /\ args'.fn = "SaveExperience" => project_rules' = project_rules
       /\ (/\ ret.op = "GetProjectRules" /\ ret.err = NoError
           /\ ret'.op = "GetProjectRules" /\ ret'.err = NoError)
             => ret'.rules = ret.rules]_vars

\* Two active rules returned by GetProjectRules after a record was saved.
C29_Witness ==
    /\ ret.op = "GetProjectRules"
    /\ ret.err = NoError
    /\ Len0(ret.rules) = MaxReadRules
    /\ Len(issue_history) = MaxReadRows

=============================================================================
